---- MODULE Spec2Model ----
(***************************************************************************)
(* Model of ccl-test-lib: the capability declaration (package config), the *)
(* compatibility filter and statistics (package loader), the source-to-    *)
(* flat transformation (package generator) and the package-level wrappers. *)
(*                                                                         *)
(* Go slices that the code only ever tests for membership (the fields of   *)
(* ImplementationConfig) are sets; slices whose order or length the code   *)
(* uses (the fields of TestCase) are sequences.  A nil pointer is the      *)
(* empty sequence Nil and a non-nil pointer to v is <<v>>.                 *)
(***************************************************************************)
EXTENDS Integers, Sequences, FiniteSets, TLC

VARIABLES
    cfg,      \* the ImplementationConfig the caller holds / TestLoader.Config
    test,     \* the TestCase argument of the per-test operations
    tests,    \* the []TestCase argument of the collection operations
    op,       \* the operation that returned last
    ret       \* what it returned

vars == <<cfg, test, tests, op, ret>>

Nil == <<>>
Some(v) == <<v>>

\* The elements of a sequence, as a set.
Range(s) == {s[i] : i \in DOMAIN s}

-----------------------------------------------------------------------------
(* package config                                                          *)

BehaviorCRLFNormalize == "crlf_normalize_to_lf"
BehaviorCRLFPreserve == "crlf_preserve_literal"
BehaviorTabsPreserve == "tabs_preserve"
BehaviorTabsToSpaces == "tabs_to_spaces"
BehaviorStrictSpacing == "strict_spacing"
BehaviorLooseSpacing == "loose_spacing"
BehaviorBooleanStrict == "boolean_strict"
BehaviorBooleanLenient == "boolean_lenient"
BehaviorListCoercionOn == "list_coercion_enabled"
BehaviorListCoercionOff == "list_coercion_disabled"

VariantProposed == "proposed_behavior"
VariantReference == "reference_compliant"

FeatureComments == "comments"
FeatureExperimentalDottedKeys == "experimental_dotted_keys"
FeatureUnicode == "unicode"

\* The keys of the map GetBehaviorConflicts returns.
ConflictGroups ==
    {"crlf_handling", "tab_handling", "spacing", "boolean", "list_coercion"}

\* GetBehaviorConflicts: group name -> the behaviors of the group.
GetBehaviorConflicts ==
    [group \in ConflictGroups |->
        CASE group = "crlf_handling" -> <<BehaviorCRLFNormalize, BehaviorCRLFPreserve>>
          [] group = "tab_handling" -> <<BehaviorTabsPreserve, BehaviorTabsToSpaces>>
          [] group = "spacing" -> <<BehaviorStrictSpacing, BehaviorLooseSpacing>>
          [] group = "boolean" -> <<BehaviorBooleanStrict, BehaviorBooleanLenient>>
          [] group = "list_coercion" -> <<BehaviorListCoercionOn, BehaviorListCoercionOff>>]

\* Every behavior some conflict group names.
AllBehaviors == UNION {Range(GetBehaviorConflicts[g]) : g \in ConflictGroups}

\* A behavior of the behavior-applicability table that is in no conflict group.
BehaviorArrayOrderInsertion == "array_order_insertion"

\* GroupCount with the counter starting at one instead of zero.
GroupCountOffByOne(c, group) ==
    Cardinality({i \in DOMAIN GetBehaviorConflicts[group] :
                    GetBehaviorConflicts[group][i] \in c.behaviorChoices}) + 1

\* The inner loop of IsValid: how many behaviors of the group are chosen.
GroupCount(c, group) ==
    Cardinality({i \in DOMAIN GetBehaviorConflicts[group] :
                    GetBehaviorConflicts[group][i] \in c.behaviorChoices})

ConfigError(type, message) == Some([Type |-> type, Message |-> message])

\* IsValid with the groups visited in the given order (Go leaves the order
\* of a map range unspecified): the first group with count > 1 is reported.
RECURSIVE IsValidFrom(_, _, _)
IsValidFrom(c, order, i) ==
    IF i > Len(order) THEN Nil
    ELSE IF GroupCount(c, order[i]) > 1
         THEN ConfigError("conflicting_behaviors",
                          "multiple conflicting behaviors in group: " \o order[i])
         ELSE IsValidFrom(c, order, i + 1)

IsValid(c, order) == IsValidFrom(c, order, 1)

\* The orders in which a range over GetBehaviorConflicts can visit its keys.
GroupOrders ==
    {o \in [1..Cardinality(ConflictGroups) -> ConflictGroups] :
        Range(o) = ConflictGroups}

HasFunction(c, fn) == fn \in c.supportedFunctions

\* HasFeature with the unsupported list searched first, as an override.
HasFeatureUnsupportedFirst(c, feature) ==
    IF feature \in c.unsupportedFeatures THEN FALSE
    ELSE IF feature \in c.supportedFeatures THEN TRUE
    ELSE FALSE

\* HasFeature: the supported list is searched first and returns true on a
\* hit; the unsupported list is searched only after it.
HasFeature(c, feature) ==
    IF feature \in c.supportedFeatures THEN TRUE
    ELSE IF feature \in c.unsupportedFeatures THEN FALSE
    ELSE FALSE

HasBehavior(c, behavior) == behavior \in c.behaviorChoices

\* HasVariant of a declaration that accepts every variant while it has made
\* no choice.
HasVariantOrNoChoice(c, variant) == c.variantChoice = variant \/ c.variantChoice = ""

HasVariant(c, variant) == c.variantChoice = variant

\* ImplementationConfig{}
EmptyConfig ==
    [supportedFunctions |-> {}, supportedFeatures |-> {},
     behaviorChoices |-> {}, variantChoice |-> "",
     unsupportedFeatures |-> {}, unsupportedFunctions |-> {}]

-----------------------------------------------------------------------------
(* package types                                                           *)

\* A value of type interface{}: a record whose kind field names its
\* dynamic type.  The nil interface:
NilValue == [kind |-> "nil"]

\* string; []interface{}; []string (which can be a nil slice); bool;
\* float64; map[string]interface{} (entries: key -> value).
StringValue(s) == [kind |-> "string", s |-> s]
ListValue(items) == [kind |-> "[]interface{}", items |-> items]
StringSliceValue(items, isNil) == [kind |-> "[]string", items |-> items, isNil |-> isNil]
BoolValue(b) == [kind |-> "bool", b |-> b]
NumberValue(n) == [kind |-> "float64", n |-> n]
MapValue(entries) == [kind |-> "map", entries |-> entries]

\* The slice-typed fields of TestCase, each of which can be a nil slice.
SliceFields == {"inputs", "args", "functions", "features", "behaviors", "variants"}

\* TestCase{}: the zero value of every field.  validations and conflicts
\* are pointers, expected is an interface{}; nils names the slice fields
\* that are nil slices (a nil slice has no elements).
EmptyMetadata ==
    [tags |-> <<>>, conflicts |-> <<>>, level |-> 0, feature |-> "", difficulty |-> ""]

EmptyTest ==
    [name |-> "", inputs |-> <<>>, validations |-> Nil,
     validation |-> "", expected |-> NilValue, args |-> <<>>, expectError |-> FALSE,
     functions |-> <<>>, features |-> <<>>, behaviors |-> <<>>, variants |-> <<>>,
     conflicts |-> Nil, meta |-> EmptyMetadata, sourceTest |-> "",
     nils |-> SliceFields]

\* The fields of ValidationSet in declaration order, each with the name
\* part and the options of its json tag; words are the capitalised words of
\* the Go field name, in lower case.
ValidationField(words, tagName) ==
    [words |-> words, tag |-> Some([name |-> tagName, options |-> <<"omitempty">>])]

ValidationSetFields ==
    << ValidationField(<<"parse">>, "parse"),
       ValidationField(<<"parse", "value">>, "parse_value"),
       ValidationField(<<"filter">>, "filter"),
       ValidationField(<<"combine">>, "combine"),
       ValidationField(<<"expand", "dotted">>, "expand_dotted"),
       ValidationField(<<"build", "hierarchy">>, "build_hierarchy"),
       ValidationField(<<"get", "string">>, "get_string"),
       ValidationField(<<"get", "int">>, "get_int"),
       ValidationField(<<"get", "bool">>, "get_bool"),
       ValidationField(<<"get", "float">>, "get_float"),
       ValidationField(<<"get", "list">>, "get_list"),
       ValidationField(<<"pretty", "print">>, "pretty_print"),
       ValidationField(<<"round", "trip">>, "round_trip"),
       ValidationField(<<"associativity">>, "associativity"),
       ValidationField(<<"canonical">>, "canonical_format") >>

\* &ValidationSet{}: every field the nil interface.  A validation set is a
\* sequence of values, one per field of ValidationSetFields.
EmptyValidationSet == [i \in DOMAIN ValidationSetFields |-> NilValue]

\* ConflictSet{}
EmptyConflictSet ==
    [functions |-> <<>>, behaviors |-> <<>>, variants |-> <<>>, features |-> <<>>]

-----------------------------------------------------------------------------
(* package loader                                                          *)

\* IsTestCompatible with the conflict loops written like the requirement
\* loops: a conflict entry the declaration lacks fails the test.
IsTestCompatibleConflictsAsRequirements(c, t) ==
    IF t.validation # "" /\ ~HasFunction(c, t.validation) THEN FALSE
    ELSE IF \E i \in DOMAIN t.functions : ~HasFunction(c, t.functions[i]) THEN FALSE
    ELSE IF \E i \in DOMAIN t.features : ~HasFeature(c, t.features[i]) THEN FALSE
    ELSE IF /\ t.conflicts # Nil
            /\ \E i \in DOMAIN t.conflicts[1].behaviors :
                    ~HasBehavior(c, t.conflicts[1].behaviors[i]) THEN FALSE
    ELSE IF /\ t.conflicts # Nil
            /\ \E i \in DOMAIN t.conflicts[1].variants :
                    ~HasVariant(c, t.conflicts[1].variants[i]) THEN FALSE
    ELSE IF \E i \in DOMAIN t.behaviors : ~HasBehavior(c, t.behaviors[i]) THEN FALSE
    ELSE IF \E i \in DOMAIN t.variants : ~HasVariant(c, t.variants[i]) THEN FALSE
    ELSE TRUE

\* IsTestCompatible reading all four lists of the conflict set, and the
\* declaration's unsupported functions.
IsTestCompatibleReadingAllConflicts(c, t) ==
    IF t.validation # "" /\ ~HasFunction(c, t.validation) THEN FALSE
    ELSE IF \E i \in DOMAIN t.functions :
                \/ ~HasFunction(c, t.functions[i])
                \/ t.functions[i] \in c.unsupportedFunctions THEN FALSE
    ELSE IF \E i \in DOMAIN t.features : ~HasFeature(c, t.features[i]) THEN FALSE
    ELSE IF /\ t.conflicts # Nil
            /\ \E i \in DOMAIN t.conflicts[1].functions :
                    HasFunction(c, t.conflicts[1].functions[i]) THEN FALSE
    ELSE IF /\ t.conflicts # Nil
            /\ \E i \in DOMAIN t.conflicts[1].features :
                    HasFeature(c, t.conflicts[1].features[i]) THEN FALSE
    ELSE IF /\ t.conflicts # Nil
            /\ \E i \in DOMAIN t.conflicts[1].behaviors :
                    HasBehavior(c, t.conflicts[1].behaviors[i]) THEN FALSE
    ELSE IF /\ t.conflicts # Nil
            /\ \E i \in DOMAIN t.conflicts[1].variants :
                    HasVariant(c, t.conflicts[1].variants[i]) THEN FALSE
    ELSE IF \E i \in DOMAIN t.behaviors : ~HasBehavior(c, t.behaviors[i]) THEN FALSE
    ELSE IF \E i \in DOMAIN t.variants : ~HasVariant(c, t.variants[i]) THEN FALSE
    ELSE TRUE

\* IsTestCompatible with the required-variants loop left out.
IsTestCompatibleIgnoringVariants(c, t) ==
    IF t.validation # "" /\ ~HasFunction(c, t.validation) THEN FALSE
    ELSE IF \E i \in DOMAIN t.functions : ~HasFunction(c, t.functions[i]) THEN FALSE
    ELSE IF \E i \in DOMAIN t.features : ~HasFeature(c, t.features[i]) THEN FALSE
    ELSE IF /\ t.conflicts # Nil
            /\ \E i \in DOMAIN t.conflicts[1].behaviors :
                    HasBehavior(c, t.conflicts[1].behaviors[i]) THEN FALSE
    ELSE IF /\ t.conflicts # Nil
            /\ \E i \in DOMAIN t.conflicts[1].variants :
                    HasVariant(c, t.conflicts[1].variants[i]) THEN FALSE
    ELSE IF \E i \in DOMAIN t.behaviors : ~HasBehavior(c, t.behaviors[i]) THEN FALSE
    ELSE TRUE

\* IsTestCompatible: each loop returns false at its first failing entry, in
\* the order of the code; the conflict loops run only for a non-nil
\* Conflicts pointer.
IsTestCompatible(c, t) ==
    IF t.validation # "" /\ ~HasFunction(c, t.validation) THEN FALSE
    ELSE IF \E i \in DOMAIN t.functions : ~HasFunction(c, t.functions[i]) THEN FALSE
    ELSE IF \E i \in DOMAIN t.features : ~HasFeature(c, t.features[i]) THEN FALSE
    ELSE IF /\ t.conflicts # Nil
            /\ \E i \in DOMAIN t.conflicts[1].behaviors :
                    HasBehavior(c, t.conflicts[1].behaviors[i]) THEN FALSE
    ELSE IF /\ t.conflicts # Nil
            /\ \E i \in DOMAIN t.conflicts[1].variants :
                    HasVariant(c, t.conflicts[1].variants[i]) THEN FALSE
    ELSE IF \E i \in DOMAIN t.behaviors : ~HasBehavior(c, t.behaviors[i]) THEN FALSE
    ELSE IF \E i \in DOMAIN t.variants : ~HasVariant(c, t.variants[i]) THEN FALSE
    ELSE TRUE

\* FilterCompatibleTests with each compatible test put in front of the
\* result instead of appended to it.
RECURSIVE FilterCompatibleTestsPrepending(_, _)
FilterCompatibleTestsPrepending(c, ts) ==
    IF ts = <<>> THEN <<>>
    ELSE IF IsTestCompatible(c, Head(ts))
         THEN FilterCompatibleTestsPrepending(c, Tail(ts)) \o <<Head(ts)>>
         ELSE FilterCompatibleTestsPrepending(c, Tail(ts))

\* The loop of FilterCompatibleTests from index i on, compatible being the
\* slice built so far.
RECURSIVE FilterLoop(_, _, _, _)
FilterLoop(c, ts, i, compatible) ==
    IF i > Len(ts) THEN compatible
    ELSE FilterLoop(c, ts, i + 1,
                    IF IsTestCompatible(c, ts[i])
                    THEN Append(compatible, ts[i])
                    ELSE compatible)

FilterCompatibleTests(c, ts) == FilterLoop(c, ts, 1, <<>>)

\* m[key]++ on a Go map: a missing key counts from zero.
Increment(m, key) ==
    IF key \in DOMAIN m THEN [m EXCEPT ![key] = @ + 1] ELSE m @@ (key :> 1)

\* for _, x := range xs { m[x]++ }
RECURSIVE IncrementAll(_, _)
IncrementAll(m, xs) ==
    IF xs = <<>> THEN m ELSE IncrementAll(Increment(m, Head(xs)), Tail(xs))

\* The statistics loop counting a test once per function: an entry of the
\* functions list that repeats the validation is not counted again.
RECURSIVE StatisticsLoopCountingOncePerTest(_, _, _)
StatisticsLoopCountingOncePerTest(ts, i, stats) ==
    IF i > Len(ts) THEN stats
    ELSE LET t == ts[i]
             byValidation == IF t.validation # ""
                             THEN Increment(stats.ByFunction, t.validation)
                             ELSE stats.ByFunction
             others == SelectSeq(t.functions, LAMBDA fn : fn # t.validation)
         IN StatisticsLoopCountingOncePerTest(ts, i + 1,
                [stats EXCEPT !.ByFunction = IncrementAll(byValidation, others),
                              !.ByFeature = IncrementAll(@, t.features)])

\* The statistics loop of GetTestStatistics from index i on.
RECURSIVE StatisticsLoop(_, _, _)
StatisticsLoop(ts, i, stats) ==
    IF i > Len(ts) THEN stats
    ELSE LET t == ts[i]
             byValidation == IF t.validation # ""
                             THEN Increment(stats.ByFunction, t.validation)
                             ELSE stats.ByFunction
         IN StatisticsLoop(ts, i + 1,
                [stats EXCEPT !.ByFunction = IncrementAll(byValidation, t.functions),
                              !.ByFeature = IncrementAll(@, t.features)])

\* GetTestStatistics with the compatible count taken from the tests whose
\* validation function is supported.
GetTestStatisticsCountingFunctions(c, ts) ==
    LET n == Cardinality({i \in DOMAIN ts : HasFunction(c, ts[i].validation)})
    IN StatisticsLoop(ts, 1,
          [TotalTests |-> Len(ts), TotalAssertions |-> Len(ts),
           CompatibleTests |-> n, CompatibleAsserts |-> n,
           ByFunction |-> <<>>, ByFeature |-> <<>>])

GetTestStatistics(c, ts) ==
    LET compatibleTests == FilterCompatibleTests(c, ts)
    IN StatisticsLoop(ts, 1,
          [TotalTests |-> Len(ts), TotalAssertions |-> Len(ts),
           CompatibleTests |-> Len(compatibleTests),
           CompatibleAsserts |-> Len(compatibleTests),
           ByFunction |-> <<>>, ByFeature |-> <<>>])

-----------------------------------------------------------------------------
(* package generator                                                       *)

\* camelToSnake: an underscore before every capital but the first, then
\* lower case; on the words of a field name, the words joined by "_".
RECURSIVE camelToSnake(_)
camelToSnake(words) ==
    IF Len(words) = 0 THEN ""
    ELSE IF Len(words) = 1 THEN words[1]
    ELSE words[1] \o "_" \o camelToSnake(Tail(words))

\* getValidationName: the json tag up to its first comma when the field has
\* a tag, the snake-cased field name otherwise.
getValidationName(field) ==
    IF field.tag # Nil THEN field.tag[1].name ELSE camelToSnake(field.words)

\* strings.ToLower and strings.Contains, tabulated on the strings the model
\* uses as validation values; every other string of the model is lower
\* case and contains neither "error" nor "invalid".
ToLower(str) ==
    CASE str = "Parse Error" -> "parse error"
      [] str = "INVALID" -> "invalid"
      [] OTHER -> str

Contains(str, substr) ==
    <<str, substr>> \in {<<"parse error", "error">>, <<"invalid", "invalid">>}

expectErrorFromValue(value) ==
    IF value.kind = "string"
    THEN Contains(ToLower(value.s), "error") \/ Contains(ToLower(value.s), "invalid")
    ELSE FALSE

\* The strings among the items of a []interface{}, in order.
RECURSIVE StringItems(_)
StringItems(items) ==
    IF items = <<>> THEN <<>>
    ELSE IF Head(items).kind = "string"
         THEN <<Head(items).s>> \o StringItems(Tail(items))
         ELSE StringItems(Tail(items))

\* parseValidationValue: the components of a validation value.  ArgsNil
\* tells whether Args is a nil slice.
parseValidationValue(value) ==
    IF value.kind = "map"
    THEN LET m == value.entries
             expected == IF "expect" \in DOMAIN m THEN m["expect"] ELSE value
             args ==
                 IF "args" \in DOMAIN m /\ m["args"].kind = "[]interface{}"
                 THEN [items |-> StringItems(m["args"].items), isNil |-> FALSE]
                 ELSE IF "args" \in DOMAIN m /\ m["args"].kind = "[]string"
                 THEN [items |-> m["args"].items, isNil |-> m["args"].isNil]
                 ELSE [items |-> <<>>, isNil |-> FALSE]
             error == IF "error" \in DOMAIN m /\ m["error"].kind = "bool"
                      THEN m["error"].b
                      ELSE FALSE
         IN [Expected |-> expected, Args |-> args.items, ArgsNil |-> args.isNil,
             Error |-> error]
    ELSE [Expected |-> value, Args |-> <<>>, ArgsNil |-> FALSE,
          Error |-> expectErrorFromValue(value)]

\* GenerateMetadataFromValidation
GenerateMetadataFromValidation(validationName) ==
    [functions |-> <<validationName>>,
     features |-> CASE validationName = "filter" -> <<FeatureComments>>
                    [] validationName = "expand_dotted" -> <<FeatureExperimentalDottedKeys>>
                    [] OTHER -> <<>>]

\* The loop keeping every feature, seen before or not.
UniqueFeaturesKeepingAll(features, seen, unique) == unique \o features

\* The de-duplication loop of TransformSourceToFlat: each feature is kept
\* the first time it is seen.
RECURSIVE UniqueFeatures(_, _, _)
UniqueFeatures(features, seen, unique) ==
    IF features = <<>> THEN unique
    ELSE IF Head(features) \in seen
         THEN UniqueFeatures(Tail(features), seen, unique)
         ELSE UniqueFeatures(Tail(features), seen \cup {Head(features)},
                             Append(unique, Head(features)))

\* behaviorFunctionMap: behavior -> the functions it applies to.
ParsingFunctions == <<"parse", "parse_indented", "canonical_format", "load">>

behaviorFunctionMap ==
    (BehaviorBooleanStrict :> <<"get_bool">>)
    @@ (BehaviorBooleanLenient :> <<"get_bool">>)
    @@ (BehaviorListCoercionOn :> <<"get_list">>)
    @@ (BehaviorListCoercionOff :> <<"get_list">>)
    @@ (BehaviorCRLFPreserve :> ParsingFunctions)
    @@ (BehaviorCRLFNormalize :> ParsingFunctions)
    @@ (BehaviorTabsPreserve :> Append(ParsingFunctions, "build_hierarchy"))
    @@ (BehaviorTabsToSpaces :> Append(ParsingFunctions, "build_hierarchy"))
    @@ (BehaviorStrictSpacing :> <<"parse", "parse_indented">>)
    @@ (BehaviorLooseSpacing :> <<"parse", "parse_indented">>)
    @@ (BehaviorArrayOrderInsertion :> <<"build_hierarchy", "get_list">>)
    @@ ("array_order_lexicographic" :> <<"build_hierarchy", "get_list">>)

\* filterBehaviorsForFunction keeping only the behaviors whose table entry
\* lists the validation.
RECURSIVE filterBehaviorsMappedOnly(_, _)
filterBehaviorsMappedOnly(behaviors, validationName) ==
    IF behaviors = <<>> THEN <<>>
    ELSE LET behavior == Head(behaviors)
             rest == filterBehaviorsMappedOnly(Tail(behaviors), validationName)
         IN IF /\ behavior \in DOMAIN behaviorFunctionMap
               /\ \E i \in DOMAIN behaviorFunctionMap[behavior] :
                      behaviorFunctionMap[behavior][i] = validationName
            THEN <<behavior>> \o rest
            ELSE rest

\* filterBehaviorsForFunction: the behaviors without a table entry and those
\* whose entry lists the validation, in order; never a nil slice.
RECURSIVE filterBehaviorsForFunction(_, _)
filterBehaviorsForFunction(behaviors, validationName) ==
    IF behaviors = <<>> THEN <<>>
    ELSE LET behavior == Head(behaviors)
             rest == filterBehaviorsForFunction(Tail(behaviors), validationName)
         IN IF behavior \notin DOMAIN behaviorFunctionMap
            THEN <<behavior>> \o rest
            ELSE IF \E i \in DOMAIN behaviorFunctionMap[behavior] :
                       behaviorFunctionMap[behavior][i] = validationName
                 THEN <<behavior>> \o rest
                 ELSE rest

\* filterConflictsForFunction returning the filtered conflict set even when
\* nothing is left in it.
filterConflictsKeepingEmpty(conflicts, validationName) ==
    IF conflicts = Nil THEN Nil
    ELSE Some([functions |-> conflicts[1].functions,
               behaviors |-> filterBehaviorsForFunction(conflicts[1].behaviors,
                                                        validationName),
               variants |-> conflicts[1].variants,
               features |-> conflicts[1].features])

\* filterConflictsForFunction
filterConflictsForFunction(conflicts, validationName) ==
    IF conflicts = Nil THEN Nil
    ELSE LET filteredBehaviors ==
                 filterBehaviorsForFunction(conflicts[1].behaviors, validationName)
             hasConflicts ==
                 \/ Len(conflicts[1].functions) > 0
                 \/ Len(filteredBehaviors) > 0
                 \/ Len(conflicts[1].variants) > 0
                 \/ Len(conflicts[1].features) > 0
         IN IF ~hasConflicts THEN Nil
            ELSE Some([functions |-> conflicts[1].functions,
                       behaviors |-> filteredBehaviors,
                       variants |-> conflicts[1].variants,
                       features |-> conflicts[1].features])

\* The flat test built with the variants kept only on the tests of the
\* parsing functions, as the behaviors are.
FlatTestForScopingVariants(sourceTest, i) ==
    LET validationName == getValidationName(ValidationSetFields[i])
        validationComponents == parseValidationValue(sourceTest.validations[1][i])
        generated == GenerateMetadataFromValidation(validationName)
    IN [EmptyTest EXCEPT
          !.name = sourceTest.name \o "_" \o validationName,
          !.inputs = sourceTest.inputs,
          !.validation = validationName,
          !.expected = validationComponents.Expected,
          !.args = validationComponents.Args,
          !.expectError = validationComponents.Error,
          !.meta = sourceTest.meta,
          !.sourceTest = sourceTest.name,
          !.functions = generated.functions,
          !.features = UniqueFeatures(sourceTest.features \o generated.features,
                                      {}, <<>>),
          !.behaviors = filterBehaviorsForFunction(sourceTest.behaviors, validationName),
          !.variants = IF validationName \in Range(ParsingFunctions)
                       THEN sourceTest.variants ELSE <<>>,
          !.conflicts = filterConflictsForFunction(sourceTest.conflicts, validationName),
          !.nils = (sourceTest.nils \cap {"inputs"})
                   \cup (IF validationComponents.ArgsNil THEN {"args"} ELSE {})]

\* The flat test TransformSourceToFlat builds for the i-th field of the
\* validation set; the fields it does not set keep their zero value.
FlatTestFor(sourceTest, i) ==
    LET validationName == getValidationName(ValidationSetFields[i])
        validationComponents == parseValidationValue(sourceTest.validations[1][i])
        generated == GenerateMetadataFromValidation(validationName)
    IN [EmptyTest EXCEPT
          !.name = sourceTest.name \o "_" \o validationName,
          !.inputs = sourceTest.inputs,
          !.validation = validationName,
          !.expected = validationComponents.Expected,
          !.args = validationComponents.Args,
          !.expectError = validationComponents.Error,
          !.meta = sourceTest.meta,
          !.sourceTest = sourceTest.name,
          !.functions = generated.functions,
          !.features = UniqueFeatures(sourceTest.features \o generated.features,
                                      {}, <<>>),
          !.behaviors = filterBehaviorsForFunction(sourceTest.behaviors, validationName),
          !.variants = sourceTest.variants,
          !.conflicts = filterConflictsForFunction(sourceTest.conflicts, validationName),
          !.nils = (sourceTest.nils \cap {"inputs"})
                   \cup (IF validationComponents.ArgsNil THEN {"args"} ELSE {})]

\* The loop of TransformSourceToFlat putting each new test in front of the
\* ones built before it.
RECURSIVE TransformLoopPrepending(_, _, _)
TransformLoopPrepending(sourceTest, i, flatTests) ==
    IF i > Len(ValidationSetFields) THEN flatTests
    ELSE IF sourceTest.validations[1][i].kind = "nil"
         THEN TransformLoopPrepending(sourceTest, i + 1, flatTests)
         ELSE TransformLoopPrepending(sourceTest, i + 1,
                                      <<FlatTestFor(sourceTest, i)>> \o flatTests)

\* The loop of TransformSourceToFlat over the fields of the validation set
\* from field i on: a nil field is skipped.
RECURSIVE TransformLoop(_, _, _)
TransformLoop(sourceTest, i, flatTests) ==
    IF i > Len(ValidationSetFields) THEN flatTests
    ELSE IF sourceTest.validations[1][i].kind = "nil"
         THEN TransformLoop(sourceTest, i + 1, flatTests)
         ELSE TransformLoop(sourceTest, i + 1,
                            Append(flatTests, FlatTestFor(sourceTest, i)))

\* TransformSourceToFlat with the loop starting at the second field.
TransformSourceToFlatFromSecondField(sourceTest) ==
    IF sourceTest.validations = Nil THEN <<sourceTest>>
    ELSE TransformLoop(sourceTest, 2, <<>>)

\* TransformSourceToFlat taking a nil validation set for an empty one.
TransformSourceToFlatNilAsEmpty(sourceTest) ==
    IF sourceTest.validations = Nil
    THEN TransformLoop([sourceTest EXCEPT !.validations = Some(EmptyValidationSet)],
                       1, <<>>)
    ELSE TransformLoop(sourceTest, 1, <<>>)

TransformSourceToFlat(sourceTest) ==
    IF sourceTest.validations = Nil THEN <<sourceTest>>
    ELSE TransformLoop(sourceTest, 1, <<>>)

-----------------------------------------------------------------------------
(* SpecConfig: a caller holds a declaration and validates it.              *)

ConfigBehaviors == AllBehaviors \cup {BehaviorArrayOrderInsertion}

InitConfig ==
    /\ cfg \in {[EmptyConfig EXCEPT !.behaviorChoices = bc, !.variantChoice = vc] :
                    bc \in SUBSET ConfigBehaviors,
                    vc \in {VariantProposed}}
    /\ test = Nil
    /\ tests = <<>>
    /\ op = "init"
    /\ ret = Nil

IsValidCall ==
    /\ \E order \in GroupOrders :
            ret' = IsValid(cfg, order)
    /\ op' = "IsValid"
    /\ UNCHANGED <<cfg, test, tests>>

NextConfig == IsValidCall

SpecConfig == InitConfig /\ [][NextConfig]_vars

\* The conflict groups in which the declaration has more than one choice.
ViolatedGroups(c) ==
    {g \in ConflictGroups :
        \E b1, b2 \in Range(GetBehaviorConflicts[g]) \cap c.behaviorChoices : b1 # b2}

\* C6: IsValid returns a ConfigError of type conflicting_behaviors exactly
\* when some predefined conflict group holds more than one of the
\* declaration's behaviorChoices, the message then names such a group, and
\* in every other case it returns no error.
C6_IsValidIffGroupConflict ==
    op = "IsValid" =>
        /\ (ret # Nil) <=> (ViolatedGroups(cfg) # {})
        /\ ret # Nil =>
              /\ ret[1].Type = "conflicting_behaviors"
              /\ \E g \in ViolatedGroups(cfg) :
                    ret[1].Message = "multiple conflicting behaviors in group: " \o g

\* An error is returned for a declaration that violates two groups and has
\* a choice from every group.
C6_Witness ==
    /\ op = "IsValid"
    /\ ret # Nil
    /\ Cardinality(ViolatedGroups(cfg)) = 2
    /\ \A g \in ConflictGroups : Range(GetBehaviorConflicts[g]) \cap cfg.behaviorChoices # {}

-----------------------------------------------------------------------------
(* SpecCompat: a caller holds a declaration, builds one test case entry by *)
(* entry and asks the loader whether the test is compatible.               *)

MaxEntries == 2

CompatFunctions == {"parse", "get_bool"}
CompatValidations == {"", "parse"}
CompatFeatures == {FeatureComments}
CompatBehaviors == {BehaviorBooleanStrict, BehaviorBooleanLenient}
CompatVariants == {VariantProposed, VariantReference}

\* The number of list entries the test carries.
TestSize(t) ==
    Len(t.functions) + Len(t.features) + Len(t.behaviors) + Len(t.variants)
    + (IF t.conflicts = Nil THEN 0
       ELSE Len(t.conflicts[1].functions) + Len(t.conflicts[1].behaviors)
            + Len(t.conflicts[1].variants) + Len(t.conflicts[1].features))

\* The conflict set of the test, allocated when the pointer is nil.
ConflictsOf(t) == IF t.conflicts = Nil THEN EmptyConflictSet ELSE t.conflicts[1]

InitCompat ==
    /\ cfg \in {[EmptyConfig EXCEPT !.supportedFunctions = fn,
                                    !.supportedFeatures = sf,
                                    !.behaviorChoices = bc,
                                    !.variantChoice = vc] :
                    fn \in SUBSET CompatFunctions,
                    sf \in SUBSET CompatFeatures,
                    bc \in SUBSET CompatBehaviors,
                    vc \in CompatVariants}
    /\ test \in {[EmptyTest EXCEPT !.validation = v] : v \in CompatValidations}
    /\ tests = <<>>
    /\ op = "init"
    /\ ret = Nil

\* The caller extends the test it is about to pass; the previous return
\* value is dropped.
Build(t) ==
    /\ TestSize(test) < MaxEntries
    /\ test' = t
    /\ op' = "init"
    /\ ret' = Nil
    /\ UNCHANGED <<cfg, tests>>

AddFunction ==
    \E fn \in CompatFunctions :
        Build([test EXCEPT !.functions = Append(@, fn), !.nils = @ \ {"functions"}])

AddFeature ==
    \E feature \in CompatFeatures :
        Build([test EXCEPT !.features = Append(@, feature), !.nils = @ \ {"features"}])

AddBehavior ==
    \E behavior \in CompatBehaviors :
        Build([test EXCEPT !.behaviors = Append(@, behavior), !.nils = @ \ {"behaviors"}])

AddVariant ==
    \E variant \in CompatVariants :
        Build([test EXCEPT !.variants = Append(@, variant), !.nils = @ \ {"variants"}])

AddConflictBehavior ==
    \E behavior \in CompatBehaviors :
        Build([test EXCEPT !.conflicts =
                  Some([ConflictsOf(test) EXCEPT !.behaviors = Append(@, behavior)])])

AddConflictVariant ==
    \E variant \in CompatVariants :
        Build([test EXCEPT !.conflicts =
                  Some([ConflictsOf(test) EXCEPT !.variants = Append(@, variant)])])

IsTestCompatibleCall ==
    /\ ret' = IsTestCompatible(cfg, test)
    /\ op' = "IsTestCompatible"
    /\ UNCHANGED <<cfg, test, tests>>

NextCompat ==
    \/ AddFunction
    \/ AddFeature
    \/ AddBehavior
    \/ AddVariant
    \/ AddConflictBehavior
    \/ AddConflictVariant
    \/ IsTestCompatibleCall

SpecCompat == InitCompat /\ [][NextCompat]_vars

\* The five checks of the compatibility predicate, each stated on its own.
CheckFunctions(d, t) ==
    /\ t.validation # "" => t.validation \in d.supportedFunctions
    /\ Range(t.functions) \subseteq d.supportedFunctions

CheckFeatures(d, t) == \A f \in Range(t.features) : HasFeature(d, f)

CheckConflictBehaviors(d, t) ==
    t.conflicts # Nil => Range(t.conflicts[1].behaviors) \cap d.behaviorChoices = {}

CheckConflictVariants(d, t) ==
    t.conflicts # Nil => d.variantChoice \notin Range(t.conflicts[1].variants)

CheckRequirements(d, t) ==
    /\ Range(t.behaviors) \subseteq d.behaviorChoices
    /\ \A v \in Range(t.variants) : v = d.variantChoice

\* The outcome of each check, every one evaluated whatever the others give.
Checks(d, t) ==
    <<CheckFunctions(d, t), CheckFeatures(d, t), CheckConflictBehaviors(d, t),
      CheckConflictVariants(d, t), CheckRequirements(d, t)>>

\* The checks that fail.
Failing(d, t) == {i \in 1..5 : ~Checks(d, t)[i]}

\* The checks taken in the given order, stopping at the first that fails:
\* false when the order reaches a failing check, true when it reaches none.
FirstFailureWins(failing, order) ==
    ~\E k \in DOMAIN order :
        /\ order[k] \in failing
        /\ \A j \in 1..(k - 1) : order[j] \notin failing

CheckOrders == {o \in [1..5 -> 1..5] : Range(o) = 1..5}

\* For each set of failing checks, the results the evaluation orders give
\* (@@ makes TLC tabulate the function once).
ResultsOverOrders ==
    [failing \in SUBSET (1..5) |->
        {FirstFailureWins(failing, order) : order \in CheckOrders}] @@ <<>>

\* C1: IsTestCompatible(d, t) is true exactly when all five checks hold,
\* and evaluating the five checks in any order, stopping at the first
\* failure, gives that same result.
C1_CompatibleIffFiveChecks ==
    op = "IsTestCompatible" =>
        /\ ret = (\A i \in 1..5 : Checks(cfg, test)[i])
        /\ ResultsOverOrders[Failing(cfg, test)] = {ret}

\* A compatible test that carries a requirement and a conflict entry.
C1_Witness ==
    /\ op = "IsTestCompatible"
    /\ ret = TRUE
    /\ test.validation # ""
    /\ test.conflicts # Nil
    /\ Len(test.behaviors) + Len(test.variants) > 0

\* The test names a behavior the declaration chose, or its variant, as a
\* conflict.
ConflictMatches(d, t) ==
    /\ t.conflicts # Nil
    /\ \/ \E b \in Range(t.conflicts[1].behaviors) : b \in d.behaviorChoices
       \/ d.variantChoice \in Range(t.conflicts[1].variants)

\* Every required function, feature, behavior and variant is declared.
RequirementsPass(d, t) ==
    CheckFunctions(d, t) /\ CheckFeatures(d, t) /\ CheckRequirements(d, t)

\* C2: a test with a conflict entry that matches the declaration is never
\* compatible, even when every requirement check passes; a test whose
\* declared conflicts match nothing in the declaration and whose
\* requirement checks pass is compatible.
C2_ConflictsDisqualify ==
    op = "IsTestCompatible" =>
        /\ ConflictMatches(cfg, test) => ret = FALSE
        /\ (test.conflicts # Nil /\ ~ConflictMatches(cfg, test)
                /\ RequirementsPass(cfg, test)) => ret = TRUE

\* A test that passes every requirement check and is rejected for its
\* conflict entry.
C2_Witness ==
    /\ op = "IsTestCompatible"
    /\ ret = FALSE
    /\ ConflictMatches(cfg, test)
    /\ RequirementsPass(cfg, test)
    /\ test.validation # ""

-----------------------------------------------------------------------------
(* SpecCapability: a caller holds a declaration and asks it what it        *)
(* supports.                                                               *)

CapabilityFunctions == {"parse", "get_bool"}
CapabilityFeatures == {FeatureComments, FeatureUnicode}
CapabilityBehaviors == {BehaviorBooleanStrict, BehaviorBooleanLenient}
CapabilityVariants == {VariantProposed, VariantReference}

InitCapability ==
    /\ cfg \in {[EmptyConfig EXCEPT !.supportedFunctions = fn,
                                    !.supportedFeatures = sf,
                                    !.unsupportedFeatures = uf,
                                    !.behaviorChoices = bc,
                                    !.variantChoice = vc] :
                    fn \in SUBSET CapabilityFunctions,
                    sf \in SUBSET CapabilityFeatures,
                    uf \in SUBSET CapabilityFeatures,
                    bc \in SUBSET CapabilityBehaviors,
                    vc \in CapabilityVariants}
    /\ test = Nil
    /\ tests = <<>>
    /\ op = "init"
    /\ ret = Nil

HasFunctionCall ==
    /\ \E fn \in CapabilityFunctions :
            ret' = [arg |-> fn, result |-> HasFunction(cfg, fn)]
    /\ op' = "HasFunction"
    /\ UNCHANGED <<cfg, test, tests>>

HasFeatureCall ==
    /\ \E feature \in CapabilityFeatures :
            ret' = [arg |-> feature, result |-> HasFeature(cfg, feature)]
    /\ op' = "HasFeature"
    /\ UNCHANGED <<cfg, test, tests>>

HasBehaviorCall ==
    /\ \E behavior \in CapabilityBehaviors :
            ret' = [arg |-> behavior, result |-> HasBehavior(cfg, behavior)]
    /\ op' = "HasBehavior"
    /\ UNCHANGED <<cfg, test, tests>>

HasVariantCall ==
    /\ \E variant \in CapabilityVariants :
            ret' = [arg |-> variant, result |-> HasVariant(cfg, variant)]
    /\ op' = "HasVariant"
    /\ UNCHANGED <<cfg, test, tests>>

NextCapability ==
    \/ HasFunctionCall
    \/ HasFeatureCall
    \/ HasBehaviorCall
    \/ HasVariantCall

SpecCapability == InitCapability /\ [][NextCapability]_vars

\* C8, as stated: HasFeature is false for every member of
\* unsupportedFeatures, false for a feature in neither list, and true only
\* for members of supportedFeatures.
C8_UnsupportedOverrides ==
    op = "HasFeature" =>
        /\ ret.arg \in cfg.unsupportedFeatures => ~ret.result
        /\ ret.arg \notin cfg.supportedFeatures \cup cfg.unsupportedFeatures => ~ret.result
        /\ ret.result => ret.arg \in cfg.supportedFeatures

-----------------------------------------------------------------------------
(* SpecFilter: a caller holds a loader with a declaration, collects tests  *)
(* and filters them or asks for their statistics.                          *)

MaxTests == 2

FilterFunctions == {"parse", "get_bool"}
FilterFeatures == {FeatureComments}
FilterBehaviors == {BehaviorBooleanStrict, BehaviorBooleanLenient}
FilterVariants == {VariantProposed, VariantReference}

\* A flat test for the validation, as the generator derives it.
FlatTest(name, validation) ==
    [EmptyTest EXCEPT !.name = name, !.validation = validation,
                      !.functions = <<validation>>, !.nils = {"inputs", "args"}]

\* The tests a caller can collect: one per axis of the compatibility check.
TestPool ==
    { FlatTest("basic_parse", "parse"),
      [FlatTest("strict_get_bool", "get_bool") EXCEPT
          !.behaviors = <<BehaviorBooleanStrict>>],
      [FlatTest("comments_parse", "parse") EXCEPT
          !.features = <<FeatureComments>>],
      [FlatTest("not_lenient_parse", "parse") EXCEPT
          !.conflicts = Some([EmptyConflictSet EXCEPT
                                 !.behaviors = <<BehaviorBooleanLenient>>])],
      [FlatTest("proposed_parse", "parse") EXCEPT
          !.variants = <<VariantProposed>>],
      [FlatTest("not_proposed_parse", "parse") EXCEPT
          !.conflicts = Some([EmptyConflictSet EXCEPT
                                 !.variants = <<VariantProposed>>])],
      [EmptyTest EXCEPT !.name = "untyped"] }

FilterConfigs ==
    {[EmptyConfig EXCEPT !.supportedFunctions = fn,
                         !.supportedFeatures = sf,
                         !.unsupportedFeatures = uf,
                         !.behaviorChoices = bc,
                         !.variantChoice = vc] :
        fn \in SUBSET FilterFunctions,
        sf \in SUBSET FilterFeatures,
        uf \in SUBSET FilterFeatures,
        bc \in SUBSET FilterBehaviors,
        vc \in FilterVariants}

InitFilter ==
    /\ cfg \in FilterConfigs
    /\ test = Nil
    /\ tests = <<>>
    /\ op = "init"
    /\ ret = Nil

\* The caller appends a test to the collection it is about to pass; the
\* previous return value is dropped.
AppendTest ==
    /\ Len(tests) < MaxTests
    /\ \E t \in TestPool : tests' = Append(tests, t)
    /\ op' = "init"
    /\ ret' = Nil
    /\ UNCHANGED <<cfg, test>>

FilterCompatibleTestsCall ==
    /\ ret' = FilterCompatibleTests(cfg, tests)
    /\ op' = "FilterCompatibleTests"
    /\ UNCHANGED <<cfg, test, tests>>

GetTestStatisticsCall ==
    /\ ret' = GetTestStatistics(cfg, tests)
    /\ op' = "GetTestStatistics"
    /\ UNCHANGED <<cfg, test, tests>>

NextFilter ==
    \/ AppendTest
    \/ FilterCompatibleTestsCall
    \/ GetTestStatisticsCall

SpecFilter == InitFilter /\ [][NextFilter]_vars

\* The positions of the compatible tests of a collection.
CompatibleIndices(d, ts) == {i \in DOMAIN ts : IsTestCompatible(d, ts[i])}

\* The k-th smallest member of a set of positions.
KthIndex(S, k) == CHOOSE i \in S : Cardinality({j \in S : j <= i}) = k

\* C3: FilterCompatibleTests returns exactly the input tests for which
\* IsTestCompatible is true, each once and in their input order: the k-th
\* element of the result is the test at the k-th compatible position.
C3_FilterIsStableSubsequence ==
    op = "FilterCompatibleTests" =>
        LET keep == CompatibleIndices(cfg, tests) IN
            /\ Len(ret) = Cardinality(keep)
            /\ \A k \in DOMAIN ret : ret[k] = tests[KthIndex(keep, k)]

\* A collection of different tests whose first test is dropped and a later
\* one kept.
C3_Witness ==
    /\ op = "FilterCompatibleTests"
    /\ Len(tests) >= 2
    /\ Len(ret) >= 1
    /\ ret[1] # tests[1]
    /\ \E i, j \in DOMAIN tests : tests[i] # tests[j]

\* B declares no more than A: the same variantChoice, and supported
\* functions, supported features and behavior choices that A also has.
Below(B, A) ==
    /\ B.variantChoice = A.variantChoice
    /\ B.supportedFunctions \subseteq A.supportedFunctions
    /\ B.supportedFeatures \subseteq A.supportedFeatures
    /\ B.behaviorChoices \subseteq A.behaviorChoices

\* No test names as a conflict a behavior that A chose and B did not.
NoConflictIntroduced(B, A, ts) ==
    \A i \in DOMAIN ts :
        ts[i].conflicts # Nil =>
            Range(ts[i].conflicts[1].behaviors)
                \cap (A.behaviorChoices \ B.behaviorChoices) = {}

\* C4: for every declaration B below the loader's declaration, when no
\* test names a behavior added over B as a conflict, every test
\* FilterCompatibleTests returns under B is also returned under the
\* loader's declaration.
C4_CompatibilityMonotone ==
    op = "FilterCompatibleTests" =>
        \A B \in FilterConfigs :
            (Below(B, cfg) /\ NoConflictIntroduced(B, cfg, tests)) =>
                LET underB == FilterCompatibleTests(B, tests) IN
                    /\ Len(underB) <= Len(ret)
                    /\ Range(underB) \subseteq Range(ret)

\* Some smaller declaration with other unsupportedFeatures keeps a test
\* and loses another that the loader's declaration keeps.
C4_Witness ==
    /\ op = "FilterCompatibleTests"
    /\ \E B \in FilterConfigs :
            /\ Below(B, cfg) /\ NoConflictIntroduced(B, cfg, tests)
            /\ B.unsupportedFeatures # cfg.unsupportedFeatures
            /\ B.behaviorChoices # cfg.behaviorChoices
            /\ LET underB == FilterCompatibleTests(B, tests) IN
                    0 < Len(underB) /\ Len(underB) < Len(ret)

\* C5: the statistics' CompatibleTests is the length of what
\* FilterCompatibleTests returns for the same declaration and tests, which
\* is the number of compatible positions; TotalTests is the number of tests
\* and CompatibleTests never exceeds it.
C5_StatisticsMatchFilter ==
    op = "GetTestStatistics" =>
        /\ ret.CompatibleTests = Len(FilterCompatibleTests(cfg, tests))
        /\ ret.CompatibleTests = Cardinality(CompatibleIndices(cfg, tests))
        /\ ret.TotalTests = Len(tests)
        /\ ret.CompatibleTests <= ret.TotalTests

\* Statistics of a collection of which a part, not all, is compatible and
\* whose incompatible test has a supported validation function.
C5_Witness ==
    /\ op = "GetTestStatistics"
    /\ 0 < ret.CompatibleTests
    /\ ret.CompatibleTests < ret.TotalTests
    /\ \E i \in DOMAIN tests :
            /\ ~IsTestCompatible(cfg, tests[i])
            /\ HasFunction(cfg, tests[i].validation)


\* The count a Go map gives for a key: zero for a key it does not hold.
CountOf(m, key) == IF key \in DOMAIN m THEN m[key] ELSE 0

\* The number of times the tests mention a function: as their validation,
\* when it is not empty, and as an entry of their functions list.
FunctionMentions(ts, f) ==
    Cardinality({i \in DOMAIN ts : ts[i].validation = f /\ f # ""})
    + Cardinality(UNION {{<<i, k>> : k \in {k \in DOMAIN ts[i].functions :
                                                ts[i].functions[k] = f}} :
                         i \in DOMAIN ts})

\* The number of entries of the tests' features lists that are the feature.
FeatureMentions(ts, feature) ==
    Cardinality(UNION {{<<i, k>> : k \in {k \in DOMAIN ts[i].features :
                                              ts[i].features[k] = feature}} :
                       i \in DOMAIN ts})

\* C30: ByFunction counts, for each function, the tests that have it as
\* their validation plus the entries of the functions lists that name it,
\* and ByFeature the entries of the features lists; a test with validation
\* v and functions [v] adds two to ByFunction[v].
C30_StatisticsCountMentions ==
    op = "GetTestStatistics" =>
        /\ \A f \in FilterFunctions \cup DOMAIN ret.ByFunction \cup {""} :
              CountOf(ret.ByFunction, f) = FunctionMentions(tests, f)
        /\ \A feature \in FilterFeatures \cup DOMAIN ret.ByFeature :
              CountOf(ret.ByFeature, feature) = FeatureMentions(tests, feature)
        /\ \A v \in FilterFunctions :
              CountOf(ret.ByFunction, v)
                  >= 2 * Cardinality({i \in DOMAIN tests :
                                         /\ tests[i].validation = v
                                         /\ tests[i].functions = <<v>>})

\* One derived parse test: ByFunction["parse"] is 2 and exceeds TotalTests.
C30_Witness ==
    /\ op = "GetTestStatistics"
    /\ Len(tests) = 1
    /\ tests[1].validation = "parse"
    /\ tests[1].functions = <<"parse">>
    /\ CountOf(ret.ByFunction, "parse") = 2
    /\ CountOf(ret.ByFunction, "parse") > ret.TotalTests

-----------------------------------------------------------------------------
(* SpecExpand: a caller builds a source test slot by slot, expands it, and *)
(* expands the tests it got back.                                          *)

MaxSlots == 2

\* The fields of the validation set the caller fills, by position:
\* parse, filter, expand_dotted, get_bool, get_list, canonical_format.
ExpandSlots == {1, 3, 5, 9, 11, 15}

\* The validation values the caller puts in a slot: a structured object
\* decoded from JSON, a structured object built by the compact loader (its
\* args a nil []string), a structured object without "expect", and two bare
\* legacy values.
SlotValues ==
    { MapValue(("expect" :> StringValue("John"))
               @@ ("args" :> ListValue(<<StringValue("name"), NumberValue(1)>>))),
      MapValue(("expect" :> NumberValue(30)) @@ ("args" :> StringSliceValue(<<>>, TRUE))),
      MapValue("error" :> BoolValue(TRUE)),
      StringValue("Parse Error"),
      BoolValue(TRUE) }

SourceTest(name) ==
    [EmptyTest EXCEPT !.name = name, !.inputs = <<"key = value">>,
                      !.validations = Some(EmptyValidationSet),
                      !.meta = [EmptyMetadata EXCEPT !.level = 1, !.feature = "parsing"],
                      !.nils = SliceFields \ {"inputs"}]

ExpandSources ==
    { SourceTest("basic"),
      [SourceTest("tagged") EXCEPT
          !.features = <<FeatureComments, FeatureUnicode>>,
          !.behaviors = <<BehaviorBooleanStrict, BehaviorCRLFPreserve, "toplevel_indent_strip">>,
          !.variants = <<VariantProposed>>,
          !.conflicts = Some([EmptyConflictSet EXCEPT
                                 !.behaviors = <<BehaviorBooleanLenient>>]),
          !.nils = {"args", "functions"}],
      [SourceTest("conflicting") EXCEPT
          !.conflicts = Some([EmptyConflictSet EXCEPT
                                 !.behaviors = <<BehaviorBooleanLenient>>,
                                 !.variants = <<VariantReference>>])],
      FlatTest("flat", "parse"),
      EmptyTest }

PresentSlots(t) ==
    IF t.validations = Nil THEN {}
    ELSE {i \in DOMAIN t.validations[1] : t.validations[1][i].kind # "nil"}

InitExpand ==
    /\ cfg = EmptyConfig
    /\ test \in ExpandSources
    /\ tests = <<>>
    /\ op = "init"
    /\ ret = Nil

\* The caller sets one more slot of the validation set.
SetSlot(i, value) ==
    /\ test.validations # Nil
    /\ i \notin PresentSlots(test)
    /\ Cardinality(PresentSlots(test)) < MaxSlots
    /\ test' = [test EXCEPT !.validations = Some([@[1] EXCEPT ![i] = value])]
    /\ op' = "init"
    /\ ret' = Nil
    /\ UNCHANGED <<cfg, tests>>

TransformSourceToFlatCall ==
    /\ op = "init"
    /\ op' = "TransformSourceToFlat"
    /\ ret' = TransformSourceToFlat(test)
    /\ UNCHANGED <<cfg, test, tests>>

\* The caller takes one of the tests it got back as its next input.
ExpandDerived(i) ==
    /\ op = "TransformSourceToFlat"
    /\ i \in DOMAIN ret
    /\ test' = ret[i]
    /\ op' = "init"
    /\ ret' = Nil
    /\ UNCHANGED <<cfg, tests>>

NextExpand ==
    \/ \E i \in ExpandSlots, value \in SlotValues : SetSlot(i, value)
    \/ TransformSourceToFlatCall
    \/ \E i \in 1..MaxSlots : ExpandDerived(i)

SpecExpand == InitExpand /\ [][NextExpand]_vars

\* C9: expanding a source test that carries a validation set with k non-nil
\* slots returns exactly k tests, one per such slot: the validation names of
\* the result are the names of the non-nil slots, and no two are the same.
C9_ExpansionCountLaw ==
    (op = "TransformSourceToFlat" /\ test.validations # Nil) =>
        /\ Len(ret) = Cardinality(PresentSlots(test))
        /\ {ret[j].validation : j \in DOMAIN ret}
             = {ValidationSetFields[i].tag[1].name : i \in PresentSlots(test)}
        /\ \A j, k \in DOMAIN ret : j # k => ret[j].validation # ret[k].validation

C9_Witness ==
    /\ op = "TransformSourceToFlat"
    /\ test.validations # Nil
    /\ PresentSlots(test) = {1, 9}
    /\ test.name = "tagged"
    /\ Len(ret) = 2

\* C10: expanding a test without a validation set returns that test alone,
\* every field unchanged; and expanding any element of any result of an
\* expansion returns that element alone.
C10_ExpansionIdentityOnFlat ==
    op = "TransformSourceToFlat" =>
        /\ test.validations = Nil => ret = <<test>>
        /\ \A j \in DOMAIN ret : TransformSourceToFlat(ret[j]) = <<ret[j]>>

C10_Witness ==
    /\ op = "TransformSourceToFlat"
    /\ test.validations = Nil
    /\ test.sourceTest = "tagged"
    /\ ret = <<test>>

\* C11: a source test whose validation set exists but has no slot set is
\* returned unchanged, alone, by TransformSourceToFlat.
C11_NoSlotsReturnedUnchanged ==
    (op = "TransformSourceToFlat" /\ test.validations # Nil
                                  /\ PresentSlots(test) = {}) =>
        ret = <<test>>

\* A behavior applies to a validation when the table has no entry for it
\* or its entry lists the validation.
AppliesTo(behavior, validationName) ==
    \/ behavior \notin DOMAIN behaviorFunctionMap
    \/ validationName \in Range(behaviorFunctionMap[behavior])

\* C13: the behaviors of a derived test are the behaviors of the source test
\* that apply to its validation, in source order, and never a nil list.
C13_BehaviorsFilteredPerValidation ==
    (op = "TransformSourceToFlat" /\ test.validations # Nil) =>
        \A j \in DOMAIN ret :
            /\ ret[j].behaviors
                 = SelectSeq(test.behaviors,
                             LAMBDA b : AppliesTo(b, ret[j].validation))
            /\ "behaviors" \notin ret[j].nils

\* A source test with boolean_strict, a line-ending behavior and an unmapped
\* behavior, expanded to a parse test without boolean_strict and a get_bool
\* test with it.
C13_Witness ==
    /\ op = "TransformSourceToFlat"
    /\ test.name = "tagged"
    /\ Len(ret) = 2
    /\ ret[1].validation = "parse"
    /\ ret[1].behaviors = <<BehaviorCRLFPreserve, "toplevel_indent_strip">>
    /\ ret[2].validation = "get_bool"
    /\ ret[2].behaviors = <<BehaviorBooleanStrict, "toplevel_indent_strip">>

\* The j-th non-nil slot of the validation set of t, in field order.
NthSlot(t, j) ==
    CHOOSE i \in PresentSlots(t) :
        Cardinality({k \in PresentSlots(t) : k < i}) = j - 1

\* C21: the j-th derived test is named after the source test and the j-th
\* non-nil slot, has that slot's name as its validation and as the single
\* entry of its functions, names the source test, and carries the variants
\* of the source test, entry for entry, whatever its validation.
C21_DerivedIdentityAndVariants ==
    (op = "TransformSourceToFlat" /\ test.validations # Nil) =>
        \A j \in DOMAIN ret :
            LET v == ValidationSetFields[NthSlot(test, j)].tag[1].name
            IN /\ ret[j].name = test.name \o "_" \o v
               /\ ret[j].validation = v
               /\ ret[j].functions = <<v>>
               /\ ret[j].sourceTest = test.name
               /\ ret[j].variants = test.variants

\* A source test with a variant expanded to a filter test and a get_bool
\* test, both carrying the variant.
C21_Witness ==
    /\ op = "TransformSourceToFlat"
    /\ test.name = "tagged"
    /\ PresentSlots(test) = {3, 9}
    /\ Len(ret) = 2
    /\ ret[1].name = "tagged_filter"
    /\ ret[2].name = "tagged_get_bool"
    /\ ret[2].variants = <<VariantProposed>>

\* The features a validation kind implies.
ImpliedFeatures(validationName) ==
    CASE validationName = "filter" -> {FeatureComments}
      [] validationName = "expand_dotted" -> {FeatureExperimentalDottedKeys}
      [] OTHER -> {}

\* The entries of s without the repetitions, in the order they first occur.
FirstOccurrences(s) ==
    LET first == {i \in DOMAIN s : \A k \in 1..(i - 1) : s[k] # s[i]}
    IN [n \in 1..Cardinality(first) |->
           s[CHOOSE i \in first : Cardinality({k \in first : k < i}) = n - 1]]

\* C22: the features of a derived test are the features of the source test
\* and those its validation kind implies, and nothing else; no feature
\* appears twice; and the features of the source test come first, in the
\* order the source test lists them.
C22_FeaturesAreDeduplicatedUnion ==
    (op = "TransformSourceToFlat" /\ test.validations # Nil) =>
        \A j \in DOMAIN ret :
            LET fs == ret[j].features
                declared == FirstOccurrences(test.features)
            IN /\ Range(fs) = Range(test.features)
                                \cup ImpliedFeatures(ret[j].validation)
               /\ \A a, b \in DOMAIN fs : a # b => fs[a] # fs[b]
               /\ Len(declared) <= Len(fs)
               /\ SubSeq(fs, 1, Len(declared)) = declared
               /\ "features" \notin ret[j].nils

\* A source test declaring comments and unicode, expanded to a filter test
\* (its implied feature already declared) and an expand_dotted test (its
\* implied feature added after the declared ones).
C22_Witness ==
    /\ op = "TransformSourceToFlat"
    /\ test.name = "tagged"
    /\ Len(ret) = 2
    /\ ret[1].validation = "filter"
    /\ ret[1].features = <<FeatureComments, FeatureUnicode>>
    /\ ret[2].validation = "expand_dotted"
    /\ ret[2].features = <<FeatureComments, FeatureUnicode,
                           FeatureExperimentalDottedKeys>>

-----------------------------------------------------------------------------
(* package loader: loading a directory of flat tests                       *)

FormatCompact == 0
FormatFlat == 1

FilterCompatible == 0
FilterAll == 1
FilterCustom == 2

NewTestLoader(testDataPath, c) ==
    [TestDataPath |-> testDataPath, Config |-> c, UseFlat |-> TRUE]

\* extractExpectedValue: a map with a "count" key is replaced by the entry
\* the validation reads; every other value is returned as it is.
extractExpectedValue(validation, expected) ==
    IF expected.kind = "nil" THEN expected
    ELSE IF expected.kind # "map" THEN expected
    ELSE IF "count" \notin DOMAIN expected.entries THEN expected
    ELSE LET m == expected.entries
             key == CASE validation \in {"parse", "parse_dedented", "filter",
                                         "compose", "expand_dotted"} -> "entries"
                      [] validation = "build_hierarchy" -> "object"
                      [] validation \in {"get_string", "get_int", "get_bool",
                                         "get_float"} -> "value"
                      [] validation = "get_list" -> "list"
                      [] OTHER -> "count"
         IN IF key # "count" /\ key \in DOMAIN m THEN m[key] ELSE expected

\* applyFiltering; a custom filter is the set of tests it accepts, Nil when
\* the caller gave none.
applyFiltering(tl, ts, opts) ==
    CASE opts.FilterMode = FilterCompatible -> FilterCompatibleTests(tl.Config, ts)
      [] opts.FilterMode = FilterCustom ->
             IF opts.CustomFilter = Nil THEN ts
             ELSE SelectSeq(ts, LAMBDA t : t \in opts.CustomFilter[1])
      [] OTHER -> ts

\* LoadAllTests on a directory of flat files whose tests are, in the order
\* of the files, `stored`.  The result is the pair of return values.
LoadAllTests(tl, opts, stored) ==
    IF opts.Format \notin {FormatCompact, FormatFlat}
    THEN [tests |-> Nil, err |-> Some("unsupported test format")]
    ELSE LET allTests ==
                 [i \in DOMAIN stored |->
                     [stored[i] EXCEPT
                         !.expected = extractExpectedValue(stored[i].validation, @)]]
         IN [tests |-> applyFiltering(tl, allTests, opts), err |-> Nil]

(* package ccl_test_lib                                                    *)

NewLoader(testDataPath, c) == NewTestLoader(testDataPath, c)

LoadCompatibleTests(testDataPath, c, stored) ==
    LET testLoader == NewLoader(testDataPath, c)
    IN LoadAllTests(testLoader,
                    [Format |-> FormatFlat, FilterMode |-> FilterCompatible,
                     CustomFilter |-> Nil],
                    stored)

GetTestStats(testDataPath, c, stored) ==
    LET testLoader == NewLoader(testDataPath, c)
        loaded == LoadAllTests(testLoader,
                               [Format |-> FormatFlat, FilterMode |-> FilterAll,
                                CustomFilter |-> Nil],
                               stored)
    IN IF loaded.err # Nil
       THEN [stats |-> GetTestStatistics(EmptyConfig, <<>>), err |-> loaded.err]
       ELSE [stats |-> GetTestStatistics(testLoader.Config, loaded.tests), err |-> Nil]

-----------------------------------------------------------------------------
(* package loader: the compact (source) format                             *)

\* CompactValidation{}; argsNil tells whether Args is a nil slice.
EmptyCompactValidation ==
    [function |-> "", expect |-> NilValue, args |-> <<>>, argsNil |-> TRUE,
     error |-> FALSE]

\* CompactTest{}; nils names the slice fields that are nil slices.
EmptyCompactTest ==
    [name |-> "", input |-> "", tests |-> <<>>, features |-> <<>>,
     behaviors |-> <<>>, variants |-> <<>>, conflicts |-> Nil,
     nils |-> {"tests", "features", "behaviors", "variants"}]

typedAccessFunctions == {"get_string", "get_int", "get_bool", "get_float", "get_list"}

\* createValidationObject: "expect" always, "args" for the typed access
\* functions only.
createValidationObject(cv) ==
    MapValue(IF cv.function \in typedAccessFunctions
             THEN ("expect" :> cv.expect)
                  @@ ("args" :> StringSliceValue(cv.args, cv.argsNil))
             ELSE ("expect" :> cv.expect))

\* The switch of loadCompactFormat: function name -> position of the field
\* of the validation set it assigns.  Its parse_dedented case assigns the
\* second field.
compactField ==
    ("parse" :> 1) @@ ("parse_dedented" :> 2) @@ ("filter" :> 3)
    @@ ("combine" :> 4) @@ ("expand_dotted" :> 5) @@ ("build_hierarchy" :> 6)
    @@ ("get_string" :> 7) @@ ("get_int" :> 8) @@ ("get_bool" :> 9)
    @@ ("get_float" :> 10) @@ ("get_list" :> 11) @@ ("pretty_print" :> 12)
    @@ ("round_trip" :> 13) @@ ("associativity" :> 14)
    @@ ("canonical_format" :> 15)

\* The loop assigning a field only while it is still nil, so that the
\* first validation of a function is the one kept.
RECURSIVE CompactValidationsKeepingFirst(_, _, _)
CompactValidationsKeepingFirst(compactTests, i, validations) ==
    IF i > Len(compactTests) THEN validations
    ELSE LET cv == compactTests[i]
         IN IF /\ cv.function \in DOMAIN compactField
               /\ validations[compactField[cv.function]].kind = "nil"
            THEN CompactValidationsKeepingFirst(compactTests, i + 1,
                     [validations EXCEPT ![compactField[cv.function]] =
                                              createValidationObject(cv)])
            ELSE CompactValidationsKeepingFirst(compactTests, i + 1, validations)

\* The loop of loadCompactFormat over compact.Tests from the i-th on: a
\* known function assigns its field, an unknown one assigns nothing.
RECURSIVE CompactValidations(_, _, _)
CompactValidations(compactTests, i, validations) ==
    IF i > Len(compactTests) THEN validations
    ELSE LET cv == compactTests[i]
         IN IF cv.function \in DOMAIN compactField
            THEN CompactValidations(compactTests, i + 1,
                     [validations EXCEPT ![compactField[cv.function]] =
                                              createValidationObject(cv)])
            ELSE CompactValidations(compactTests, i + 1, validations)

\* The conflict set loadCompactFormat keeps: nil unless some list is
\* non-empty.
CompactConflicts(compact) ==
    IF compact.conflicts = Nil THEN Nil
    ELSE IF \/ Len(compact.conflicts[1].functions) > 0
            \/ Len(compact.conflicts[1].behaviors) > 0
            \/ Len(compact.conflicts[1].variants) > 0
            \/ Len(compact.conflicts[1].features) > 0
         THEN compact.conflicts
         ELSE Nil

\* The body of the loop of loadCompactFormat: the test case of one compact
\* test.  Features, Behaviors and Variants are made non-nil; Functions and
\* Args are not set.
CompactTestCase(compact) ==
    [EmptyTest EXCEPT
        !.name = compact.name,
        !.inputs = <<compact.input>>,
        !.features = compact.features,
        !.behaviors = compact.behaviors,
        !.variants = compact.variants,
        !.conflicts = CompactConflicts(compact),
        !.meta = EmptyMetadata,
        !.validations = Some(CompactValidations(compact.tests, 1, EmptyValidationSet)),
        !.nils = {"args", "functions"}]

\* loadCompactFormat on the decoded tests of a compact file.
loadCompactFormat(compactTests) ==
    [i \in DOMAIN compactTests |-> CompactTestCase(compactTests[i])]

-----------------------------------------------------------------------------
(* package generator: writing a flat file                                  *)

\* GenerateOptions{}: the two function lists of the options, as sets (the
\* code only tests membership).
EmptyGenerateOptions == [SkipFunctions |-> {}, OnlyFunctions |-> {}]

\* FlatGenerator.applyFiltering: a test is dropped when its validation is in
\* a non-empty SkipFunctions or outside a non-empty OnlyFunctions.
generatorApplyFiltering(options, ts) ==
    SelectSeq(ts, LAMBDA t :
        /\ ~(options.SkipFunctions # {} /\ t.validation \in options.SkipFunctions)
        /\ ~(options.OnlyFunctions # {} /\ t.validation \notin options.OnlyFunctions))

\* getArgsForValidation: the args as they are for the typed access
\* functions, a nil slice for every other validation.
getArgsForValidation(validation, args, argsNil) ==
    IF validation \in typedAccessFunctions
    THEN [items |-> args, isNil |-> argsNil]
    ELSE [items |-> <<>>, isNil |-> TRUE]

\* The entries createExpectedStructure keeps: the maps whose "key" and
\* "value" are strings.
RECURSIVE ExpectedEntries(_)
ExpectedEntries(items) ==
    IF items = <<>> THEN <<>>
    ELSE LET entry == Head(items)
             rest == ExpectedEntries(Tail(items))
         IN IF /\ entry.kind = "map"
               /\ "key" \in DOMAIN entry.entries
               /\ entry.entries["key"].kind = "string"
               /\ "value" \in DOMAIN entry.entries
               /\ entry.entries["value"].kind = "string"
            THEN <<[Key |-> entry.entries["key"].s,
                    Value |-> entry.entries["value"].s]>> \o rest
            ELSE rest

\* GeneratedFormatSimpleJsonTestsElemExpected{}
EmptyExpected ==
    [Count |-> 0, Entries |-> <<>>, Object |-> NilValue, Value |-> NilValue,
     List |-> NilValue]

\* The Expected object shaped by the dynamic type of the data where the
\* validation is not one of the entry, object or list validations.
createExpectedStructureInferringFromData(validation, data) ==
    CASE validation \in {"parse", "parse_indented", "filter", "compose",
                         "expand_dotted"} ->
             IF data.kind = "[]interface{}"
             THEN [EmptyExpected EXCEPT !.Count = Len(data.items),
                                        !.Entries = ExpectedEntries(data.items)]
             ELSE EmptyExpected
      [] validation = "build_hierarchy" ->
             [EmptyExpected EXCEPT !.Count = 1, !.Object = data]
      [] validation = "get_list" ->
             IF data.kind = "[]interface{}"
             THEN [EmptyExpected EXCEPT !.Count = Len(data.items), !.List = data]
             ELSE EmptyExpected
      [] OTHER ->
             IF data.kind = "[]interface{}"
             THEN [EmptyExpected EXCEPT !.Count = Len(data.items), !.List = data]
             ELSE IF data.kind = "map"
             THEN [EmptyExpected EXCEPT !.Count = 1, !.Object = data]
             ELSE [EmptyExpected EXCEPT !.Count = 1, !.Value = data]

createExpectedStructure(validation, data) ==
    CASE validation \in {"parse", "parse_indented", "filter", "compose",
                         "expand_dotted"} ->
             IF data.kind = "[]interface{}"
             THEN [EmptyExpected EXCEPT !.Count = Len(data.items),
                                        !.Entries = ExpectedEntries(data.items)]
             ELSE EmptyExpected
      [] validation = "build_hierarchy" ->
             [EmptyExpected EXCEPT !.Count = 1, !.Object = data]
      [] validation \in {"get_string", "get_int", "get_bool", "get_float"} ->
             [EmptyExpected EXCEPT !.Count = 1, !.Value = data]
      [] validation = "get_list" ->
             IF data.kind = "[]interface{}"
             THEN [EmptyExpected EXCEPT !.Count = Len(data.items), !.List = data]
             ELSE EmptyExpected
      [] OTHER -> [EmptyExpected EXCEPT !.Count = 1, !.Value = data]

\* convertToFlatFormat: the record written for one flat test.  The four
\* metadata lists are never nil; ArgsNil tells whether Args is a nil slice,
\* which the encoding omits.
convertToFlatFormat(t) ==
    LET args == getArgsForValidation(t.validation, t.args, "args" \in t.nils)
    IN [Name |-> t.name, Inputs |-> t.inputs, Validation |-> t.validation,
        Expected |-> createExpectedStructure(t.validation, t.expected),
        Functions |-> t.functions, Features |-> t.features,
        Behaviors |-> t.behaviors, Variants |-> t.variants,
        Args |-> args.items, ArgsNil |-> args.isNil,
        SourceTest |-> Some(t.sourceTest)]

\* The loop of GenerateFile that expands the source tests from the i-th on.
RECURSIVE TransformAll(_, _, _)
TransformAll(sourceTests, i, flatTests) ==
    IF i > Len(sourceTests) THEN flatTests
    ELSE TransformAll(sourceTests, i + 1,
                      flatTests \o TransformSourceToFlat(sourceTests[i]))

\* GenerateFile on a compact source file whose decoded tests are
\* compactTests: the records of the file it writes.
GenerateFile(options, compactTests) ==
    LET sourceTests == loadCompactFormat(compactTests)
        flatTests == generatorApplyFiltering(options,
                                             TransformAll(sourceTests, 1, <<>>))
    IN [i \in DOMAIN flatTests |-> convertToFlatFormat(flatTests[i])]

-----------------------------------------------------------------------------
(* package loader: files and directories                                   *)

\* One JSON object of a tests array.  lists holds the array-valued keys
\* that are written (functions, features, behaviors, variants, args), each
\* with its items; hasTests tells whether the object has a "tests" array (a
\* compact test's validations).  An object is read as a flat record or as a
\* compact test; each reading ignores the keys it does not know.
EmptyJSONRecord ==
    [name |-> "", input |-> "", validation |-> "", expected |-> NilValue,
     lists |-> <<>>, conflicts |-> Nil, hasTests |-> FALSE, tests |-> <<>>,
     expect_error |-> FALSE, source_test |-> ""]

ListOf(record, key) ==
    IF key \in DOMAIN record.lists THEN record.lists[key] ELSE <<>>

\* json.Unmarshal of one object into a TestCase: a slice whose key is not
\* written stays nil.
decodeTestCase(record) ==
    [EmptyTest EXCEPT
        !.name = record.name,
        !.inputs = IF record.input = "" THEN <<>> ELSE <<record.input>>,
        !.validation = record.validation,
        !.expected = record.expected,
        !.args = ListOf(record, "args"),
        !.functions = ListOf(record, "functions"),
        !.features = ListOf(record, "features"),
        !.behaviors = ListOf(record, "behaviors"),
        !.variants = ListOf(record, "variants"),
        !.conflicts = record.conflicts,
        !.expectError = record.expect_error,
        !.sourceTest = record.source_test,
        !.nils = (SliceFields \ DOMAIN record.lists)
                 \ (IF record.input = "" THEN {} ELSE {"inputs"})]

\* json.Unmarshal of one object into a CompactTest.
decodeCompactTest(record) ==
    [EmptyCompactTest EXCEPT
        !.name = record.name,
        !.input = record.input,
        !.tests = record.tests,
        !.features = ListOf(record, "features"),
        !.behaviors = ListOf(record, "behaviors"),
        !.variants = ListOf(record, "variants"),
        !.conflicts = record.conflicts,
        !.nils = ({"features", "behaviors", "variants"} \ DOMAIN record.lists)
                 \cup (IF record.hasTests THEN {} ELSE {"tests"})]

\* The content of a file: unreadable (os.ReadFile fails), malformed (not
\* JSON), a bare array of objects, or a container object with a "tests"
\* array of objects.
FileShapes == {"unreadable", "malformed", "array", "object"}

\* json.Unmarshal(data, &testSuite): an object decodes, anything else is
\* an error.
UnmarshalTestSuite(data) ==
    IF data.shape = "object"
    THEN [Tests |-> [i \in DOMAIN data.records |-> decodeTestCase(data.records[i])],
          err |-> Nil]
    ELSE [Tests |-> <<>>, err |-> Some("json: cannot unmarshal")]

\* json.Unmarshal(data, &tests) with tests a []TestCase: an array decodes,
\* anything else is an error.
UnmarshalTestCases(data) ==
    IF data.shape = "array"
    THEN [Tests |-> [i \in DOMAIN data.records |-> decodeTestCase(data.records[i])],
          err |-> Nil]
    ELSE [Tests |-> <<>>, err |-> Some("json: cannot unmarshal")]

\* json.Unmarshal(data, &compactTestFile)
UnmarshalCompactTestFile(data) ==
    IF data.shape = "object"
    THEN [Tests |-> [i \in DOMAIN data.records |-> decodeCompactTest(data.records[i])],
          err |-> Nil]
    ELSE [Tests |-> <<>>, err |-> Some("json: cannot unmarshal")]

Wrap(message, err) == Some(message \o ": " \o err[1])

\* The suite LoadTestFile returns for the tests it read.
SuiteOf(suite, ts) == Some([Suite |-> suite, Version |-> "1.0", Tests |-> ts])

\* LoadTestFile.  With the flat format the container decode is tried first
\* and the array decode is used when it fails or yields no test.
LoadTestFile(tl, file, opts) ==
    IF file.data.shape = "unreadable"
    THEN [suite |-> Nil, err |-> Wrap("failed to read file", Some(file.name))]
    ELSE IF opts.Format = FormatFlat
    THEN LET testSuite == UnmarshalTestSuite(file.data)
             fallback == UnmarshalTestCases(file.data)
         IN IF testSuite.err = Nil /\ Len(testSuite.Tests) > 0
            THEN [suite |-> SuiteOf("Flat Format",
                     [i \in DOMAIN testSuite.Tests |->
                         [testSuite.Tests[i] EXCEPT
                             !.expected = extractExpectedValue(
                                              testSuite.Tests[i].validation, @)]]),
                  err |-> Nil]
            ELSE IF fallback.err # Nil
            THEN [suite |-> Nil,
                  err |-> Wrap("failed to parse flat format JSON", fallback.err)]
            ELSE [suite |-> SuiteOf("Flat Format",
                     [i \in DOMAIN fallback.Tests |->
                         [fallback.Tests[i] EXCEPT
                             !.expected = extractExpectedValue(
                                              fallback.Tests[i].validation, @)]]),
                  err |-> Nil]
    ELSE LET compactTestFile == UnmarshalCompactTestFile(file.data)
         IN IF compactTestFile.err # Nil
            THEN [suite |-> Nil,
                  err |-> Wrap("failed to parse compact format",
                               Wrap("failed to parse compact format JSON",
                                    compactTestFile.err))]
            ELSE [suite |-> SuiteOf("Compact Format",
                                    loadCompactFormat(compactTestFile.Tests)),
                  err |-> Nil]

\* A directory: its path and its files in the order of their names.  A
\* path that does not exist has no files.
\* filepath.Glob(dir/*.json): the files whose name ends in .json, or
\* ErrBadPattern when the path is not a well-formed pattern.
JSONFileNames == {"a.json", "b.json", "c.json", "d.json"}

BadPatternPaths == {"tests[2025"}

\* Glob matching every file of the directory.
GlobEveryFile(dir) ==
    IF dir.path \in BadPatternPaths
    THEN [files |-> <<>>, err |-> Some("syntax error in pattern")]
    ELSE [files |-> dir.files, err |-> Nil]

Glob(dir) ==
    IF dir.path \in BadPatternPaths
    THEN [files |-> <<>>, err |-> Some("syntax error in pattern")]
    ELSE [files |-> SelectSeq(dir.files, LAMBDA f : f.name \in JSONFileNames),
          err |-> Nil]

\* The loop of LoadAllTests over the files from the i-th on: the first file
\* that fails to load ends the whole load with its error.
RECURSIVE LoadFiles(_, _, _, _, _)
LoadFiles(tl, files, opts, i, allTests) ==
    IF i > Len(files) THEN [tests |-> allTests, err |-> Nil]
    ELSE LET loaded == LoadTestFile(tl, files[i], opts)
         IN IF loaded.err # Nil
            THEN [tests |-> Nil,
                  err |-> Wrap("failed to load " \o files[i].name, loaded.err)]
            ELSE LoadFiles(tl, files, opts, i + 1,
                           allTests \o loaded.suite[1].Tests)

\* LoadAllTests on a directory.
LoadAllTestsIn(tl, opts, dir) ==
    IF opts.Format \notin {FormatCompact, FormatFlat}
    THEN [tests |-> Nil, err |-> Some("unsupported test format")]
    ELSE LET found == Glob(dir)
         IN IF found.err # Nil
            THEN [tests |-> Nil, err |-> Wrap("failed to find test files", found.err)]
            ELSE LET loaded == LoadFiles(tl, found.files, opts, 1, <<>>)
                 IN IF loaded.err # Nil THEN loaded
                    ELSE [tests |-> applyFiltering(tl, loaded.tests, opts),
                          err |-> Nil]

-----------------------------------------------------------------------------
(* SpecLib: a caller holds a declaration and a directory of flat tests,    *)
(* and calls the library; it may validate the declaration, and stops when  *)
(* validation fails.                                                       *)

MaxStored == 2

TestDataPath == "generated_tests"

LibFunctions == {"parse", "get_bool"}
LibBehaviors == {BehaviorBooleanStrict, BehaviorBooleanLenient, BehaviorCRLFPreserve}

LibPool ==
    { [FlatTest("counted_parse", "parse") EXCEPT
          !.expected = MapValue(("count" :> NumberValue(1))
                                @@ ("entries" :> ListValue(<<StringValue("key")>>)))],
      [FlatTest("strict_get_bool", "get_bool") EXCEPT
          !.behaviors = <<BehaviorBooleanStrict>>, !.expected = BoolValue(TRUE)],
      [FlatTest("not_lenient_parse", "parse") EXCEPT
          !.conflicts = Some([EmptyConflictSet EXCEPT
                                 !.behaviors = <<BehaviorBooleanLenient>>])] }

InitLib ==
    /\ cfg \in {[EmptyConfig EXCEPT !.supportedFunctions = fn,
                                     !.behaviorChoices = bc,
                                     !.variantChoice = VariantProposed] :
                    fn \in SUBSET LibFunctions, bc \in SUBSET LibBehaviors}
    /\ test = Nil
    /\ tests \in UNION {[1..n -> LibPool] : n \in 0..MaxStored}
    /\ op = "init"
    /\ ret = Nil

\* log.Fatalf after a failed validation: the caller has stopped.
Stopped == op = "IsValid" /\ ret # Nil

ValidateCall ==
    /\ ~Stopped
    /\ IsValidCall

NewLoaderCall ==
    /\ ~Stopped
    /\ op' = "NewLoader"
    /\ ret' = NewLoader(TestDataPath, cfg)
    /\ UNCHANGED <<cfg, test, tests>>

LoadAllTestsCall(format, filterMode, customFilter) ==
    /\ ~Stopped
    /\ op' = "LoadAllTests"
    /\ ret' = LoadAllTests(NewTestLoader(TestDataPath, cfg),
                           [Format |-> format, FilterMode |-> filterMode,
                            CustomFilter |-> customFilter],
                           tests)
    /\ UNCHANGED <<cfg, test, tests>>

LoadCompatibleTestsCall ==
    /\ ~Stopped
    /\ op' = "LoadCompatibleTests"
    /\ ret' = LoadCompatibleTests(TestDataPath, cfg, tests)
    /\ UNCHANGED <<cfg, test, tests>>

GetTestStatsCall ==
    /\ ~Stopped
    /\ op' = "GetTestStats"
    /\ ret' = GetTestStats(TestDataPath, cfg, tests)
    /\ UNCHANGED <<cfg, test, tests>>

NextLib ==
    \/ ValidateCall
    \/ NewLoaderCall
    \/ \E format \in {FormatFlat, 2},
          filterMode \in {FilterCompatible, FilterAll, FilterCustom},
          customFilter \in {Nil, Some({t \in LibPool : t.validation = "parse"})} :
            LoadAllTestsCall(format, filterMode, customFilter)
    \/ LoadCompatibleTestsCall
    \/ GetTestStatsCall

SpecLib == InitLib /\ [][NextLib]_vars

\* C7: a declaration whose behavior choices hold two behaviors of one
\* conflict group is never used for filtering: no call of the library that
\* filters tests completes with such a declaration.
C7_ConflictingDeclarationNeverFilters ==
    (op \in {"LoadCompatibleTests", "GetTestStats"} /\ tests # <<>>) =>
        ViolatedGroups(cfg) = {}

-----------------------------------------------------------------------------
(* SpecSource: an author writes the validations of a compact test one      *)
(* after another; the test is loaded, expanded, and written as a flat file.*)

MaxValidations == 2

KeyValue(key, value) ==
    MapValue(("key" :> StringValue(key)) @@ ("value" :> StringValue(value)))

\* The validations an author writes: each an entry of a compact test's
\* tests list.
CompactValidationPool ==
    { [EmptyCompactValidation EXCEPT
          !.function = "parse",
          !.expect = ListValue(<<KeyValue("flag", "yes")>>)],
      [EmptyCompactValidation EXCEPT
          !.function = "parse", !.expect = ListValue(<<>>), !.error = TRUE],
      [EmptyCompactValidation EXCEPT
          !.function = "filter",
          !.expect = ListValue(<<KeyValue("flag", "yes")>>)],
      [EmptyCompactValidation EXCEPT
          !.function = "get_bool", !.expect = BoolValue(TRUE),
          !.args = <<"flag">>, !.argsNil = FALSE],
      [EmptyCompactValidation EXCEPT
          !.function = "get_int", !.expect = NumberValue(30)],
      [EmptyCompactValidation EXCEPT
          !.function = "check_syntax", !.expect = BoolValue(TRUE)] }

CompactTestOf(name) ==
    [EmptyCompactTest EXCEPT !.name = name, !.input = "flag = yes"]

CompactSources ==
    { CompactTestOf("plain"),
      [CompactTestOf("strict") EXCEPT
          !.behaviors = <<BehaviorBooleanStrict, BehaviorCRLFPreserve,
                          "toplevel_indent_strip">>,
          !.conflicts = Some([EmptyConflictSet EXCEPT
                                 !.behaviors = <<BehaviorBooleanStrict>>]),
          !.nils = {"tests", "features", "variants"}],
      [CompactTestOf("hollow") EXCEPT
          !.features = <<FeatureComments>>,
          !.variants = <<VariantReference>>,
          !.conflicts = Some(EmptyConflictSet),
          !.nils = {"tests", "behaviors"}],
      [CompactTestOf("opposed") EXCEPT
          !.behaviors = <<BehaviorBooleanStrict>>,
          !.conflicts = Some([EmptyConflictSet EXCEPT
                                 !.behaviors = <<BehaviorBooleanLenient>>,
                                 !.variants = <<VariantProposed>>]),
          !.nils = {"tests", "features", "variants"}] }

SourceOptions ==
    { EmptyGenerateOptions,
      [EmptyGenerateOptions EXCEPT !.SkipFunctions = {"parse"}],
      [EmptyGenerateOptions EXCEPT !.OnlyFunctions = {"parse", "get_bool"}] }

InitSource ==
    /\ cfg = EmptyConfig
    /\ test \in CompactSources
    /\ tests = <<>>
    /\ op = "init"
    /\ ret = Nil

\* The author writes one more validation at the end of the tests list.
AddValidation(cv) ==
    /\ Len(test.tests) < MaxValidations
    /\ test' = [test EXCEPT !.tests = Append(@, cv), !.nils = @ \ {"tests"}]
    /\ tests' = <<>>
    /\ op' = "init"
    /\ ret' = Nil
    /\ UNCHANGED cfg

\* The compact file holding the test is loaded; tests keeps what was
\* loaded.
loadCompactFormatCall ==
    /\ op = "init"
    /\ op' = "loadCompactFormat"
    /\ ret' = loadCompactFormat(<<test>>)
    /\ tests' = ret'
    /\ UNCHANGED <<cfg, test>>

\* The loaded test is expanded.
TransformLoadedCall ==
    /\ op = "loadCompactFormat"
    /\ op' = "TransformSourceToFlat"
    /\ ret' = TransformSourceToFlat(tests[1])
    /\ UNCHANGED <<cfg, test, tests>>

GenerateFileCall(options) ==
    /\ op = "init"
    /\ op' = "GenerateFile"
    /\ ret' = GenerateFile(options, <<test>>)
    /\ tests' = loadCompactFormat(<<test>>)
    /\ UNCHANGED <<cfg, test>>

NextSource ==
    \/ \E cv \in CompactValidationPool : AddValidation(cv)
    \/ loadCompactFormatCall
    \/ TransformLoadedCall
    \/ \E options \in SourceOptions : GenerateFileCall(options)

SpecSource == InitSource /\ [][NextSource]_vars

\* The canonical order of the validation names.
CanonicalOrder ==
    << "parse", "parse_value", "filter", "combine", "expand_dotted",
       "build_hierarchy", "get_string", "get_int", "get_bool", "get_float",
       "get_list", "pretty_print", "round_trip", "associativity",
       "canonical_format" >>

PositionIn(order, name) == CHOOSE i \in DOMAIN order : order[i] = name

\* The tests list in every order of its entries.
Reorderings(seq) ==
    {[i \in DOMAIN seq |-> seq[f[i]]] :
        f \in {g \in [DOMAIN seq -> DOMAIN seq] :
                    \A i, j \in DOMAIN seq : i # j => g[i] # g[j]}}

DistinctFunctions(seq) ==
    \A i, j \in DOMAIN seq : i # j => seq[i].function # seq[j].function

NeverEmptyButPresent(conflicts) ==
    conflicts # Nil =>
        \/ conflicts[1].functions # <<>>
        \/ conflicts[1].behaviors # <<>>
        \/ conflicts[1].variants # <<>>
        \/ conflicts[1].features # <<>>

\* The conflict set with its behaviors restricted to those that apply to
\* the validation, absent when nothing is left.
ConflictsFor(conflicts, validationName) ==
    IF conflicts = Nil THEN Nil
    ELSE LET filtered ==
                 [conflicts[1] EXCEPT
                     !.behaviors = SelectSeq(@, LAMBDA b : AppliesTo(b, validationName))]
         IN IF NeverEmptyButPresent(Some(filtered)) THEN Some(filtered) ELSE Nil

C15_ArgsOnlyForTypedAccess ==
    /\ op = "TransformSourceToFlat" =>
          \A j \in DOMAIN ret :
              ret[j].validation \notin typedAccessFunctions =>
                  "args" \in ret[j].nils
    /\ op = "GenerateFile" =>
          \A j \in DOMAIN ret :
              ret[j].Validation \notin typedAccessFunctions => ret[j].ArgsNil


\* The function names that have a slot in the validation set.
RecognizedFunctions ==
    {"parse", "parse_dedented", "filter", "combine", "expand_dotted",
     "build_hierarchy", "get_string", "get_int", "get_bool", "get_float",
     "get_list", "pretty_print", "round_trip", "associativity",
     "canonical_format"}

\* The recognized function names the author's validations list.
AuthoredFunctions(compact) ==
    {compact.tests[k].function : k \in DOMAIN compact.tests} \cap RecognizedFunctions

\* The position of the last validation the author wrote for a function.
LastAuthored(compact, function) ==
    CHOOSE k \in DOMAIN compact.tests :
        /\ compact.tests[k].function = function
        /\ \A j \in DOMAIN compact.tests :
               compact.tests[j].function = function => j <= k

\* C28: the loaded source test has as many non-nil slots as the author's
\* validations list distinct recognized function names; the slot of a
\* function holds the expect value of the last validation written for it;
\* and expanding gives one test per such function, carrying that value,
\* however many validations the author wrote.
C28_LastValidationPerFunctionWins ==
    op \in {"loadCompactFormat", "TransformSourceToFlat"} =>
        /\ Len(tests) = 1
        /\ Cardinality(PresentSlots(tests[1])) = Cardinality(AuthoredFunctions(test))
        /\ \A f \in AuthoredFunctions(test) :
              tests[1].validations[1][compactField[f]].entries["expect"]
                  = test.tests[LastAuthored(test, f)].expect
        /\ op = "TransformSourceToFlat" =>
              /\ Len(ret) = Cardinality(AuthoredFunctions(test))
              /\ \A f \in AuthoredFunctions(test) :
                    \E j \in DOMAIN ret :
                        /\ ret[j].validation = f
                        /\ ret[j].expected = test.tests[LastAuthored(test, f)].expect

\* Two parse validations with different expect values, expanded to one
\* parse test that carries the second.
C28_Witness ==
    /\ op = "TransformSourceToFlat"
    /\ Len(test.tests) = 2
    /\ test.tests[1].function = "parse"
    /\ test.tests[2].function = "parse"
    /\ test.tests[1].expect # test.tests[2].expect
    /\ Len(ret) = 1
    /\ ret[1].expected = test.tests[2].expect

\* A validation of a function without a slot, next to one with a slot:
\* one test is derived.
C28_WitnessDropped ==
    /\ op = "TransformSourceToFlat"
    /\ Len(test.tests) = 2
    /\ test.tests[1].function = "check_syntax"
    /\ test.tests[2].function = "get_int"
    /\ Len(ret) = 1

-----------------------------------------------------------------------------
(* SpecLoad: files are put in a directory; single files and the whole      *)
(* directory are loaded.  tests holds the directory, test the arguments of *)
(* the last call.                                                          *)

MaxFiles == 2

LoadPaths == {"generated_tests", "missing_dir"} \cup BadPatternPaths

FileNameAt == <<"a.json", "b.json", "c.json", "d.json">>

\* The objects written in the files: a flat record with an empty features
\* array and no other list, a flat record with a behaviors array only, and
\* a compact test with one validation.
LoadRecords ==
    [flat |-> [EmptyJSONRecord EXCEPT
                  !.name = "basic_parse", !.input = "flag = yes",
                  !.validation = "parse",
                  !.expected = MapValue(("count" :> NumberValue(1))
                                        @@ ("entries" :> ListValue(
                                               <<KeyValue("flag", "yes")>>))),
                  !.lists = ("features" :> <<>>)],
     strict |-> [EmptyJSONRecord EXCEPT
                  !.name = "strict_get_bool", !.input = "flag = yes",
                  !.validation = "get_bool", !.expected = BoolValue(TRUE),
                  !.lists = ("behaviors" :> <<BehaviorBooleanStrict>>)
                            @@ ("args" :> <<"flag">>)],
     compact |-> [EmptyJSONRecord EXCEPT
                  !.name = "plain", !.input = "flag = yes",
                  !.hasTests = TRUE,
                  !.tests = <<[EmptyCompactValidation EXCEPT
                                 !.function = "parse",
                                 !.expect = ListValue(<<KeyValue("flag", "yes")>>)]>>,
                  !.lists = ("variants" :> <<>>)]]

RecordLists ==
    { <<>>, <<LoadRecords.flat>>, <<LoadRecords.flat, LoadRecords.strict>>,
      <<LoadRecords.compact>> }

FileContents ==
    {[shape |-> "unreadable", records |-> <<>>],
     [shape |-> "malformed", records |-> <<>>]}
    \cup {[shape |-> sh, records |-> rs] : sh \in {"array", "object"},
                                           rs \in RecordLists}

LoadConfig == [EmptyConfig EXCEPT !.supportedFunctions = {"parse"}]

InitLoad ==
    /\ cfg = LoadConfig
    /\ test = Nil
    /\ tests \in {[path |-> p, files |-> <<>>] : p \in LoadPaths}
    /\ op = "init"
    /\ ret = Nil

\* A file is written in the directory: the next .json file, or a file that
\* the pattern does not match.
AddFile(name, data) ==
    /\ tests.path = "generated_tests"
    /\ Len(tests.files) < MaxFiles
    /\ \/ name = FileNameAt[Len(tests.files) + 1]
       \/ name = "notes.txt" /\ data.shape = "malformed"
    /\ tests' = [tests EXCEPT !.files = Append(@, [name |-> name, data |-> data])]
    /\ test' = Nil
    /\ op' = "init"
    /\ ret' = Nil
    /\ UNCHANGED cfg

LoadTestFileCall(i, format) ==
    /\ i \in DOMAIN tests.files
    /\ test' = [file |-> i, Format |-> format, FilterMode |-> FilterAll]
    /\ op' = "LoadTestFile"
    /\ ret' = LoadTestFile(NewTestLoader(tests.path, cfg), tests.files[i],
                           [Format |-> format, FilterMode |-> FilterAll,
                            CustomFilter |-> Nil])
    /\ UNCHANGED <<cfg, tests>>

LoadDirectoryCall(format, filterMode) ==
    /\ test' = [file |-> 0, Format |-> format, FilterMode |-> filterMode]
    /\ op' = "LoadAllTests"
    /\ ret' = LoadAllTestsIn(NewTestLoader(tests.path, cfg),
                             [Format |-> format, FilterMode |-> filterMode,
                              CustomFilter |-> Nil],
                             tests)
    /\ UNCHANGED <<cfg, tests>>

NextLoad ==
    \/ \E name \in JSONFileNames \cup {"notes.txt"}, data \in FileContents :
            AddFile(name, data)
    \/ \E i \in 1..MaxFiles, format \in {FormatCompact, FormatFlat} :
            LoadTestFileCall(i, format)
    \/ \E format \in {FormatCompact, FormatFlat},
          filterMode \in {FilterCompatible, FilterAll, FilterCustom} :
            LoadDirectoryCall(format, filterMode)

SpecLoad == InitLoad /\ [][NextLoad]_vars

\* The tests the records of a flat file stand for.
FlatTestsOf(records) ==
    [i \in DOMAIN records |->
        [decodeTestCase(records[i]) EXCEPT
            !.expected = extractExpectedValue(records[i].validation, @)]]

\* C16: with the flat format, a file that is a bare array of records and a
\* file that is a container object of records (of any length, zero too)
\* both load without error and give the tests of their records, in order.
C16_BothFlatEncodingsLoad ==
    (op = "LoadTestFile" /\ test.Format = FormatFlat
        /\ tests.files[test.file].data.shape \in {"array", "object"}) =>
            /\ ret.err = Nil
            /\ ret.suite # Nil
            /\ ret.suite[1].Tests = FlatTestsOf(tests.files[test.file].data.records)

\* The files of the directory whose name ends in .json.
MatchingFiles(dir) == SelectSeq(dir.files, LAMBDA f : f.name \in JSONFileNames)

FailingFiles(dir, format) ==
    {i \in DOMAIN MatchingFiles(dir) :
        LoadTestFile(NewTestLoader(dir.path, cfg), MatchingFiles(dir)[i],
                     [Format |-> format, FilterMode |-> FilterAll,
                      CustomFilter |-> Nil]).err # Nil}

\* The directory without its i-th matching file.
WithoutFile(dir, i) ==
    [dir EXCEPT !.files = SelectSeq(MatchingFiles(dir),
                                    LAMBDA f : f # MatchingFiles(dir)[i])]

\* C18: when one file of a directory fails to load and the others load, the
\* load of the directory reports the error with the path of that file and
\* still delivers the tests of the other files.
C18_MalformedFileDoesNotAbortDirectory ==
    (op = "LoadAllTests" /\ tests.path \notin BadPatternPaths) =>
        \A i \in FailingFiles(tests, test.Format) :
            FailingFiles(tests, test.Format) = {i} =>
                /\ ret.err # Nil
                /\ ret.tests
                     = LoadAllTestsIn(NewTestLoader(tests.path, cfg),
                                      [Format |-> test.Format,
                                       FilterMode |-> test.FilterMode,
                                       CustomFilter |-> Nil],
                                      WithoutFile(tests, i)).tests

\* The tests a successful call returned.
LoadedTests ==
    IF op = "LoadTestFile" /\ ret.err = Nil THEN ret.suite[1].Tests
    ELSE IF op = "LoadAllTests" /\ ret.err = Nil THEN ret.tests
    ELSE <<>>

\* C19: every test that was loaded, from either format and either flat
\* encoding, has non-nil features, behaviors, variants and functions.
C19_LoadedListsNeverNil ==
    \A j \in DOMAIN LoadedTests :
        LoadedTests[j].nils \cap {"features", "behaviors", "variants", "functions"} = {}

-----------------------------------------------------------------------------
(* SpecConcurrent: goroutines call the library on one declaration and one  *)
(* collection of tests, each call advancing one loop iteration at a time.  *)
(* cfg and tests are shared; op, test and ret hold, for each goroutine,    *)
(* its position, its local variables and its return value.                 *)

MaxCallers == 2

Callers == 1..MaxCallers

ConcurrentCalls ==
    {"FilterCompatibleTests", "TransformSourceToFlat", "GetTestStatistics",
     "LoadCompatibleTests", "GetTestStats"}

\* The shared tests: a flat test tagged with a behavior and a source test
\* with two validations and no tag.
ConcurrentTests ==
    << [FlatTest("strict_get_bool", "get_bool") EXCEPT
           !.behaviors = <<BehaviorBooleanStrict>>],
       [SourceTest("untagged") EXCEPT
           !.validations = Some([EmptyValidationSet EXCEPT
                                    ![1] = StringValue("Parse Error"),
                                    ![9] = BoolValue(TRUE)])] >>

ConcurrentConfigs ==
    {[EmptyConfig EXCEPT !.supportedFunctions = {"parse", "get_bool"},
                         !.behaviorChoices = bc] :
        bc \in {{BehaviorBooleanStrict}, {BehaviorBooleanLenient}}}

\* The local variables of a call: the loader it built (Nil for a call on
\* the shared loader), the tests it loaded, its argument, its loop index
\* and the tests kept so far.
EmptyLocal ==
    [loader |-> Nil, loaded |-> FALSE, ts |-> <<>>, arg |-> Nil, i |-> 1,
     compatible |-> <<>>]

Idle == [kind |-> "", pc |-> "idle"]

InitConcurrent ==
    /\ cfg \in ConcurrentConfigs
    /\ tests \in {ConcurrentTests, <<ConcurrentTests[2], ConcurrentTests[1]>>}
    /\ op = [p \in Callers |-> Idle]
    /\ test = [p \in Callers |-> EmptyLocal]
    /\ ret = [p \in Callers |-> Nil]

\* One iteration of the loop of FilterCompatibleTests writing each kept
\* test over the front of the slice it ranges over (compatible := tests[:0]).
FilterIterationInPlace(c, ts, local) ==
    LET keep == IsTestCompatible(c, ts[local.i])
    IN [ts |-> IF keep THEN [ts EXCEPT ![Len(local.compatible) + 1] = ts[local.i]]
               ELSE ts,
        local |-> [local EXCEPT
                      !.i = @ + 1,
                      !.compatible = IF keep THEN Append(@, ts[local.i]) ELSE @]]

\* One iteration of the loop of FilterCompatibleTests over the slice ts:
\* the slice as the iteration leaves it, and the local variables.  The
\* kept tests are appended to a slice of the call's own.
FilterIteration(c, ts, local) ==
    LET keep == IsTestCompatible(c, ts[local.i])
    IN [ts |-> ts,
        local |-> [local EXCEPT
                      !.i = @ + 1,
                      !.compatible = IF keep THEN Append(@, ts[local.i]) ELSE @]]

\* The declaration and the slice a call filters with: those of the loader
\* it built, or the shared ones.
ConfigOf(p) == IF test[p].loader = Nil THEN cfg ELSE test[p].loader[1].Config

SliceOf(p) == IF test[p].loaded THEN test[p].ts ELSE tests

\* A goroutine calls an operation; TransformSourceToFlat gets the k-th
\* shared test by value.
Start(p, kind, k) ==
    /\ op[p].pc = "idle"
    /\ k \in DOMAIN tests
    /\ op' = [op EXCEPT ![p] =
                 [kind |-> kind,
                  pc |-> CASE kind = "TransformSourceToFlat" -> "transform"
                           [] kind \in {"LoadCompatibleTests", "GetTestStats"} -> "load"
                           [] OTHER -> "filter"]]
    /\ test' = [test EXCEPT ![p] =
                   IF kind = "TransformSourceToFlat"
                   THEN [EmptyLocal EXCEPT !.arg = Some(tests[k])]
                   ELSE EmptyLocal]
    /\ UNCHANGED <<cfg, tests, ret>>

\* LoadCompatibleTests and GetTestStats build their own loader and read
\* the stored tests.
LoadStep(p) ==
    /\ op[p].pc = "load"
    /\ LET tl == NewLoader(TestDataPath, cfg)
           loadedAll == LoadAllTests(tl, [Format |-> FormatFlat,
                                          FilterMode |-> FilterAll,
                                          CustomFilter |-> Nil], tests)
       IN test' = [test EXCEPT ![p] = [@ EXCEPT !.loader = Some(tl),
                                                !.loaded = TRUE,
                                                !.ts = loadedAll.tests]]
    /\ op' = [op EXCEPT ![p] = [@ EXCEPT !.pc = "filter"]]
    /\ UNCHANGED <<cfg, tests, ret>>

FilterStep(p) ==
    /\ op[p].pc = "filter"
    /\ test[p].i <= Len(SliceOf(p))
    /\ LET after == FilterIteration(ConfigOf(p), SliceOf(p), test[p])
       IN IF test[p].loaded
          THEN /\ test' = [test EXCEPT ![p] = [after.local EXCEPT !.ts = after.ts]]
               /\ tests' = tests
          ELSE /\ test' = [test EXCEPT ![p] = after.local]
               /\ tests' = after.ts
    /\ UNCHANGED <<cfg, op, ret>>

\* The loop of FilterCompatibleTests is over: the filtering calls return,
\* the statistics calls go on to their counting loop.
FilterDone(p) ==
    /\ op[p].pc = "filter"
    /\ test[p].i > Len(SliceOf(p))
    /\ IF op[p].kind \in {"GetTestStatistics", "GetTestStats"}
       THEN /\ op' = [op EXCEPT ![p] = [@ EXCEPT !.pc = "stats"]]
            /\ ret' = ret
       ELSE /\ op' = [op EXCEPT ![p] = [@ EXCEPT !.pc = "done"]]
            /\ ret' = [ret EXCEPT ![p] =
                          IF op[p].kind = "LoadCompatibleTests"
                          THEN [tests |-> test[p].compatible, err |-> Nil]
                          ELSE test[p].compatible]
    /\ UNCHANGED <<cfg, test, tests>>

StatsStep(p) ==
    /\ op[p].pc = "stats"
    /\ LET ts == SliceOf(p)
           stats == StatisticsLoop(ts, 1,
                       [TotalTests |-> Len(ts), TotalAssertions |-> Len(ts),
                        CompatibleTests |-> Len(test[p].compatible),
                        CompatibleAsserts |-> Len(test[p].compatible),
                        ByFunction |-> <<>>, ByFeature |-> <<>>])
       IN ret' = [ret EXCEPT ![p] = IF op[p].kind = "GetTestStats"
                                    THEN [stats |-> stats, err |-> Nil]
                                    ELSE stats]
    /\ op' = [op EXCEPT ![p] = [@ EXCEPT !.pc = "done"]]
    /\ UNCHANGED <<cfg, test, tests>>

TransformStep(p) ==
    /\ op[p].pc = "transform"
    /\ ret' = [ret EXCEPT ![p] = TransformSourceToFlat(test[p].arg[1])]
    /\ op' = [op EXCEPT ![p] = [@ EXCEPT !.pc = "done"]]
    /\ UNCHANGED <<cfg, test, tests>>

NextConcurrent ==
    \E p \in Callers :
        \/ \E kind \in ConcurrentCalls, k \in 1..Len(ConcurrentTests) : Start(p, kind, k)
        \/ LoadStep(p)
        \/ FilterStep(p)
        \/ FilterDone(p)
        \/ StatsStep(p)
        \/ TransformStep(p)

SpecConcurrent == InitConcurrent /\ [][NextConcurrent]_vars

\* What the call of goroutine p returns when it runs alone.
RunAlone(p) ==
    CASE op[p].kind = "FilterCompatibleTests" -> FilterCompatibleTests(cfg, tests)
      [] op[p].kind = "GetTestStatistics" -> GetTestStatistics(cfg, tests)
      [] op[p].kind = "TransformSourceToFlat" -> TransformSourceToFlat(test[p].arg[1])
      [] op[p].kind = "LoadCompatibleTests" -> LoadCompatibleTests(TestDataPath, cfg, tests)
      [] op[p].kind = "GetTestStats" -> GetTestStats(TestDataPath, cfg, tests)

\* C20: under every interleaving each call returns what it returns when
\* run alone, and a step of one call changes nothing but that call's own
\* position, local variables and return value: neither the shared
\* declaration, nor the shared tests, nor anything of another call.
C20_ConcurrentCallsAreIndependent ==
    /\ [](\A p \in Callers : op[p].pc = "done" => ret[p] = RunAlone(p))
    /\ [][/\ cfg' = cfg
          /\ tests' = tests
          /\ \E p \in Callers :
                \A q \in Callers \ {p} :
                    op'[q] = op[q] /\ test'[q] = test[q] /\ ret'[q] = ret[q]]_vars

\* One call has returned its filtered tests, some kept and some dropped,
\* while another call is in the middle of its loop.
C20_Witness ==
    /\ op[1].kind = "FilterCompatibleTests"
    /\ op[1].pc = "done"
    /\ Len(ret[1]) = 1
    /\ op[2].kind = "GetTestStats"
    /\ op[2].pc = "filter"
    /\ test[2].i = 2

-----------------------------------------------------------------------------
(* SpecShape: a caller builds an expected value item by item and has it    *)
(* shaped for a validation name.                                           *)

MaxItems == 2

\* The validation names handed to createExpectedStructure: the names of the
\* validation set, the two names only the shaping knows, and two names
\* nothing knows.
ShapeValidations ==
    {ValidationSetFields[i].tag[1].name : i \in DOMAIN ValidationSetFields}
        \cup {"parse_indented", "compose", "custom_check", ""}

\* The items of a list: two key/value entries, an entry whose value is not
\* a string, and a bare string.
ShapeItems ==
    { KeyValue("k1", "v1"), KeyValue("k2", "v2"),
      MapValue(("key" :> StringValue("k3")) @@ ("value" :> NumberValue(3))),
      StringValue("a") }

\* The values that are not lists: a string, a number, a boolean, an object
\* and the nil interface.
ShapeScalars ==
    { StringValue("test_value"), NumberValue(42), BoolValue(TRUE),
      MapValue("key" :> StringValue("value")), NilValue }

InitShape ==
    /\ cfg = EmptyConfig
    /\ test \in {[EmptyTest EXCEPT !.validation = v, !.expected = d] :
                     v \in ShapeValidations,
                     d \in ShapeScalars \cup {ListValue(<<>>)}}
    /\ tests = <<>>
    /\ op = "init"
    /\ ret = Nil

\* The caller appends one item to the list it has built.
AppendItem(item) ==
    /\ test.expected.kind = "[]interface{}"
    /\ Len(test.expected.items) < MaxItems
    /\ test' = [test EXCEPT !.expected = ListValue(Append(@.items, item))]
    /\ op' = "init"
    /\ ret' = Nil
    /\ UNCHANGED <<cfg, tests>>

createExpectedStructureCall ==
    /\ op = "init"
    /\ op' = "createExpectedStructure"
    /\ ret' = createExpectedStructure(test.validation, test.expected)
    /\ UNCHANGED <<cfg, test, tests>>

NextShape ==
    \/ \E item \in ShapeItems : AppendItem(item)
    \/ createExpectedStructureCall

SpecShape == InitShape /\ [][NextShape]_vars

\* The field of the Expected object a validation name selects.
ShapeOf(validation) ==
    CASE validation \in {"parse", "parse_indented", "filter", "compose",
                         "expand_dotted"} -> "Entries"
      [] validation = "build_hierarchy" -> "Object"
      [] validation = "get_list" -> "List"
      [] OTHER -> "Value"

\* The fields of an Expected object that hold something.
FilledFields(expected) ==
    {f \in {"Object", "Value", "List"} : expected[f].kind # "nil"}
        \cup (IF expected.Entries # <<>> THEN {"Entries"} ELSE {})

\* The key/value entries among the items, in order.
KeyValueEntries(items) ==
    SelectSeq(items, LAMBDA e : /\ e.kind = "map"
                                /\ {"key", "value"} \subseteq DOMAIN e.entries
                                /\ e.entries["key"].kind = "string"
                                /\ e.entries["value"].kind = "string")

-----------------------------------------------------------------------------
(* Claims on SpecCompat about what the compatibility predicate reads       *)

\* The declaration with a name and a version, and with the given
\* unsupported lists.
DeclarationVariant(c, name, version, unsupportedFunctions, unsupportedFeatures) ==
    [name |-> name, version |-> version]
    @@ [c EXCEPT !.unsupportedFunctions = unsupportedFunctions,
                 !.unsupportedFeatures = unsupportedFeatures]

\* The test with the given functions and features lists in its conflict
\* set.
ConflictVariant(t, functions, features) ==
    [t EXCEPT !.conflicts = Some([ConflictsOf(t) EXCEPT !.functions = functions,
                                                      !.features = features])]

\* C26: the result of IsTestCompatible stays the same when the functions
\* and features lists of the test's conflict set, the declaration's
\* unsupported functions and features, and its name and version are
\* replaced by any others.
C26_CompatibilityIgnoresUnreadFields ==
    op = "IsTestCompatible" =>
        /\ \A name \in {"", "mock"}, version \in {"", "v1.0.0"},
              ufn \in SUBSET CompatFunctions, uf \in SUBSET CompatFeatures :
                IsTestCompatible(DeclarationVariant(cfg, name, version, ufn, uf),
                                 test) = ret
        /\ \A fns \in {<<>>, <<"parse">>, <<"get_bool", "parse">>},
              fs \in {<<>>, <<FeatureComments>>},
              ufn \in SUBSET CompatFunctions, uf \in SUBSET CompatFeatures :
                IsTestCompatible(DeclarationVariant(cfg, "mock", "v1.0.0", ufn, uf),
                                 ConflictVariant(test, fns, fs)) = ret

\* A compatible test with a feature the declaration supports and a
\* function it supports: a predicate reading the unsupported lists or the
\* other conflict lists would reject it under some replacement.
C26_Witness ==
    /\ op = "IsTestCompatible"
    /\ ret = TRUE
    /\ test.features = <<FeatureComments>>
    /\ test.functions = <<"parse">>
    /\ cfg.supportedFeatures = {FeatureComments}

-----------------------------------------------------------------------------
(* SpecAlias: a caller expands a source test and then writes to an element *)
(* of a list of one of the tests it got back.  A Go slice is a view of a   *)
(* backing array; two slices copied from one another share the array, and  *)
(* a write through one is seen through the other.                          *)

AliasSlots == {1, 9, 11}

\* The validation values of the source test: one as the compact loader
\* builds it (its args a []string), one as decoded from JSON (its args a
\* []interface{}).
AliasValues ==
    { MapValue(("expect" :> StringValue("John"))
               @@ ("args" :> StringSliceValue(<<"name">>, FALSE))),
      MapValue(("expect" :> BoolValue(TRUE))
               @@ ("args" :> ListValue(<<StringValue("enabled")>>))) }

AliasSources ==
    { [SourceTest("shared") EXCEPT
          !.features = <<FeatureComments>>,
          !.behaviors = <<BehaviorCRLFPreserve>>,
          !.variants = <<VariantProposed>>,
          !.conflicts = Some([functions |-> <<"compose">>,
                              behaviors |-> <<BehaviorCRLFNormalize>>,
                              variants |-> <<VariantReference>>,
                              features |-> <<FeatureUnicode>>]),
          !.nils = {"args", "functions"}],
      SourceTest("bare") }

\* The lists a derived test holds.
ListFields ==
    {"features", "behaviors", "variants", "args", "conflicts.functions",
     "conflicts.behaviors", "conflicts.variants", "conflicts.features"}

ListOfTest(t, field) ==
    CASE field = "features" -> t.features
      [] field = "behaviors" -> t.behaviors
      [] field = "variants" -> t.variants
      [] field = "args" -> t.args
      [] field = "conflicts.functions" ->
             IF t.conflicts = Nil THEN <<>> ELSE t.conflicts[1].functions
      [] field = "conflicts.behaviors" ->
             IF t.conflicts = Nil THEN <<>> ELSE t.conflicts[1].behaviors
      [] field = "conflicts.variants" ->
             IF t.conflicts = Nil THEN <<>> ELSE t.conflicts[1].variants
      [] field = "conflicts.features" ->
             IF t.conflicts = Nil THEN <<>> ELSE t.conflicts[1].features

\* t with the k-th element of one of its lists overwritten.
WithElement(t, field, k, value) ==
    CASE field = "features" -> [t EXCEPT !.features[k] = value]
      [] field = "behaviors" -> [t EXCEPT !.behaviors[k] = value]
      [] field = "variants" -> [t EXCEPT !.variants[k] = value]
      [] field = "args" -> [t EXCEPT !.args[k] = value]
      [] field = "conflicts.functions" ->
             [t EXCEPT !.conflicts = Some([@[1] EXCEPT !.functions[k] = value])]
      [] field = "conflicts.behaviors" ->
             [t EXCEPT !.conflicts = Some([@[1] EXCEPT !.behaviors[k] = value])]
      [] field = "conflicts.variants" ->
             [t EXCEPT !.conflicts = Some([@[1] EXCEPT !.variants[k] = value])]
      [] field = "conflicts.features" ->
             [t EXCEPT !.conflicts = Some([@[1] EXCEPT !.features[k] = value])]

\* The backing array of a list of the test TransformSourceToFlat builds for
\* the i-th field of the validation set: an array of the source test where
\* the slice is assigned as it is, an array of the call's own where the
\* list is built with make and append.
Backing(sourceTest, i, field) ==
    CASE field = "variants" ->
             IF "variants" \notin sourceTest.nils
             THEN <<"source", "variants">> ELSE <<"fresh", i, field>>
      [] field \in {"conflicts.functions", "conflicts.variants",
                    "conflicts.features"} -> <<"source", field>>
      [] field = "args" ->
             LET value == sourceTest.validations[1][i]
             IN IF /\ value.kind = "map"
                   /\ "args" \in DOMAIN value.entries
                   /\ value.entries["args"].kind = "[]string"
                THEN <<"value", i, "args">> ELSE <<"fresh", i, field>>
      [] OTHER -> <<"fresh", i, field>>

InitAlias ==
    /\ cfg = EmptyConfig
    /\ test \in AliasSources
    /\ tests = <<>>
    /\ op = "init"
    /\ ret = Nil

\* The caller overwrites the k-th element of a list of the j-th test it
\* got back; the write lands in the backing array of that list, and every
\* slice over the same array shows it.
ModifyInPlace(j, field, k) ==
    /\ op = "TransformSourceToFlat"
    /\ test.validations # Nil
    /\ j \in DOMAIN ret
    /\ k \in DOMAIN ListOfTest(ret[j], field)
    /\ LET array == Backing(test, NthSlot(test, j), field)
       IN /\ ret' = [m \in DOMAIN ret |->
                        IF Backing(test, NthSlot(test, m), field) = array
                        THEN WithElement(ret[m], field, k, "overwritten")
                        ELSE ret[m]]
          /\ test' = IF array = <<"source", field>>
                     THEN WithElement(test, field, k, "overwritten")
                     ELSE IF array[1] = "value"
                     THEN [test EXCEPT
                              !.validations = Some([@[1] EXCEPT
                                  ![array[2]].entries["args"].items[k] = "overwritten"])]
                     ELSE test
    /\ op' = "ModifyInPlace"
    /\ UNCHANGED <<cfg, tests>>

NextAlias ==
    \/ \E i \in AliasSlots, value \in AliasValues : SetSlot(i, value)
    \/ TransformSourceToFlatCall
    \/ \E j \in 1..MaxSlots, field \in ListFields, k \in 1..2 :
           ModifyInPlace(j, field, k)

SpecAlias == InitAlias /\ [][NextAlias]_vars

\* C24: expanding leaves the source test as it was, and a write to an
\* element of a list of one derived test changes neither the source test
\* nor any other derived test.
C24_DerivedCollectionsAreFresh ==
    [][/\ op' = "TransformSourceToFlat" => test' = test
       /\ (op = "TransformSourceToFlat" /\ op' = "ModifyInPlace") =>
             /\ test' = test
             /\ \E j \in DOMAIN ret :
                    \A m \in DOMAIN ret \ {j} : ret'[m] = ret[m]]_vars

-----------------------------------------------------------------------------
(* package generator: the file GenerateFile writes, and reading it back    *)

\* json.MarshalIndent of an Expected object, as json.Unmarshal reads it
\* back into an interface{}: "count" always; "entries" and "list" when they
\* have an element, "object" and "value" when they are not nil (omitempty).
encodeExpected(expected) ==
    MapValue(
        ("count" :> NumberValue(expected.Count))
        @@ (IF expected.Entries # <<>>
            THEN "entries" :> ListValue([k \in DOMAIN expected.Entries |->
                                            KeyValue(expected.Entries[k].Key,
                                                     expected.Entries[k].Value)])
            ELSE <<>>)
        @@ (IF expected.Object.kind # "nil" THEN "object" :> expected.Object ELSE <<>>)
        @@ (IF expected.Value.kind # "nil" THEN "value" :> expected.Value ELSE <<>>)
        @@ (IF expected.List.kind # "nil" /\ expected.List.items # <<>>
            THEN "list" :> expected.List ELSE <<>>))

\* json.MarshalIndent of one record of the flat file: name, input,
\* validation, expected, the four metadata lists, args when it has an
\* element, and source_test.  No other key is written.
encodeFlatTest(flatTest) ==
    [EmptyJSONRecord EXCEPT
        !.name = flatTest.Name,
        !.input = IF flatTest.Inputs = <<>> THEN "" ELSE flatTest.Inputs[1],
        !.validation = flatTest.Validation,
        !.expected = encodeExpected(flatTest.Expected),
        !.lists = ("functions" :> flatTest.Functions)
                  @@ ("features" :> flatTest.Features)
                  @@ ("behaviors" :> flatTest.Behaviors)
                  @@ ("variants" :> flatTest.Variants)
                  @@ (IF flatTest.ArgsNil \/ flatTest.Args = <<>>
                      THEN <<>> ELSE "args" :> flatTest.Args),
        !.source_test = flatTest.SourceTest[1]]

\* The wrapper object written with every key of the tests it was given,
\* their conflicts and their error expectation included.
WriteFlatRecordsKeepingAll(flatTests, records) ==
    [name |-> "generated.json",
     data |-> [shape |-> "object",
               records |-> [i \in DOMAIN records |->
                               [encodeFlatTest(records[i]) EXCEPT
                                   !.conflicts = flatTests[i].conflicts,
                                   !.expect_error = flatTests[i].expectError]]]]

\* The end of GenerateFile: the wrapper object holding the converted
\* records of the flat tests is encoded and written.
WriteFlatRecords(flatTests, records) ==
    [name |-> "generated.json",
     data |-> [shape |-> "object",
               records |-> [i \in DOMAIN records |-> encodeFlatTest(records[i])]]]

\* The file GenerateFile writes for a compact source file.
WrittenFile(options, compactTests) ==
    LET sourceTests == loadCompactFormat(compactTests)
        flatTests == generatorApplyFiltering(options,
                                             TransformAll(sourceTests, 1, <<>>))
    IN WriteFlatRecords(flatTests, GenerateFile(options, compactTests))

\* GenerateFile, then LoadTestFile of the written file with the flat hint.
GenerateThenLoad(options, compactTests) ==
    LoadTestFile(NewTestLoader("", EmptyConfig),
                 WrittenFile(options, compactTests),
                 [Format |-> FormatFlat, FilterMode |-> FilterAll,
                  CustomFilter |-> Nil])

-----------------------------------------------------------------------------
(* SpecRoundTrip: an author writes a source test validation by validation; *)
(* the flat file is generated from it and loaded back.                     *)

\* The validations of the round trip: one of each shape of expected value,
\* and one of a kind that has no shape of its own.
RoundTripValidations ==
    { [EmptyCompactValidation EXCEPT
          !.function = "parse",
          !.expect = ListValue(<<KeyValue("name", "Alice")>>)],
      [EmptyCompactValidation EXCEPT
          !.function = "build_hierarchy",
          !.expect = MapValue("name" :> StringValue("Alice"))],
      [EmptyCompactValidation EXCEPT
          !.function = "get_string", !.expect = StringValue("Alice"),
          !.args = <<"name">>, !.argsNil = FALSE],
      [EmptyCompactValidation EXCEPT
          !.function = "get_list",
          !.expect = ListValue(<<StringValue("a"), StringValue("b")>>),
          !.args = <<"items">>, !.argsNil = FALSE],
      [EmptyCompactValidation EXCEPT
          !.function = "canonical_format",
          !.expect = StringValue("name = Alice")] }

GenerateThenLoadCall ==
    /\ op = "init"
    /\ op' = "GenerateThenLoad"
    /\ ret' = GenerateThenLoad(EmptyGenerateOptions, <<test>>)
    /\ tests' = loadCompactFormat(<<test>>)
    /\ UNCHANGED <<cfg, test>>

NextRoundTrip ==
    \/ \E cv \in RoundTripValidations : AddValidation(cv)
    \/ GenerateThenLoadCall

SpecRoundTrip == InitSource /\ [][NextRoundTrip]_vars

\* The tests loaded back from the written file.
RoundTripTests == IF ret.suite = Nil THEN <<>> ELSE ret.suite[1].Tests

\* C25: for every non-nil slot of the validation set of the loaded source
\* test, the file written and loaded back holds exactly one test of that
\* validation; its expected value is the slot's expect value, its args are
\* the slot's args, its input and source test are the source test's input
\* and name.
C25_GenerateThenLoadRoundTrip ==
    op = "GenerateThenLoad" =>
        \A i \in PresentSlots(tests[1]) :
            LET v == ValidationSetFields[i].tag[1].name
                slot == tests[1].validations[1][i].entries
                back == SelectSeq(RoundTripTests, LAMBDA t : t.validation = v)
            IN /\ Len(back) = 1
               /\ back[1].expected = slot["expect"]
               /\ back[1].args = (IF "args" \in DOMAIN slot
                                  THEN slot["args"].items ELSE <<>>)
               /\ back[1].inputs = tests[1].inputs
               /\ back[1].sourceTest = tests[1].name

-----------------------------------------------------------------------------
(* SpecVariants: a caller holds a declaration, expands a source test that  *)
(* requires some variants and filters the derived tests.                   *)

VariantSlots == {1, 9, 11}

VariantValues ==
    { MapValue("expect" :> ListValue(<<KeyValue("flag", "yes")>>)),
      MapValue(("expect" :> BoolValue(TRUE))
               @@ ("args" :> ListValue(<<StringValue("flag")>>))) }

\* The required-variants lists of the source test.
VariantLists ==
    { <<>>, <<VariantProposed>>, <<VariantProposed, VariantProposed>>,
      <<VariantProposed, VariantReference>>,
      <<VariantReference, VariantProposed>> }

\* Declarations that support every function of the slots and differ in
\* their variant choice.
VariantDeclarations ==
    {[EmptyConfig EXCEPT !.supportedFunctions = {"parse", "get_bool", "get_list"},
                         !.variantChoice = vc] :
        vc \in {VariantProposed, VariantReference, ""}}

InitVariants ==
    /\ cfg \in VariantDeclarations
    /\ test \in {[SourceTest("required") EXCEPT !.variants = vs,
                                                !.nils = @ \ {"variants"}] :
                     vs \in VariantLists}
    /\ tests = <<>>
    /\ op = "init"
    /\ ret = Nil

\* The derived tests are filtered; tests keeps them.
FilterDerivedCall ==
    /\ op = "TransformSourceToFlat"
    /\ op' = "FilterCompatibleTests"
    /\ tests' = ret
    /\ ret' = FilterCompatibleTests(cfg, ret)
    /\ UNCHANGED <<cfg, test>>

NextVariants ==
    \/ \E i \in VariantSlots, value \in VariantValues : SetSlot(i, value)
    \/ TransformSourceToFlatCall
    \/ FilterDerivedCall

SpecVariants == InitVariants /\ [][NextVariants]_vars

\* The test requires two variants that differ.
RequiresTwoVariants(t) ==
    \E a, b \in DOMAIN t.variants : t.variants[a] # t.variants[b]

\* C27: a test that requires two different variants is compatible with no
\* declaration; every test derived from it carries the same list, so none
\* of them is compatible with any declaration, and FilterCompatibleTests
\* returns none of them.
C27_TwoVariantsNeverCompatible ==
    RequiresTwoVariants(test) =>
        /\ \A d \in VariantDeclarations : ~IsTestCompatible(d, test)
        /\ op = "TransformSourceToFlat" =>
              \A j \in DOMAIN ret :
                  /\ ret[j].variants = test.variants
                  /\ \A d \in VariantDeclarations : ~IsTestCompatible(d, ret[j])
        /\ op = "FilterCompatibleTests" => ret = <<>>

\* Two tests derived from a source test requiring both variants, filtered
\* with a declaration that supports their functions: none is returned.
C27_Witness ==
    /\ op = "FilterCompatibleTests"
    /\ test.variants = <<VariantProposed, VariantReference>>
    /\ cfg.variantChoice = VariantProposed
    /\ Len(tests) = 2
    /\ ret = <<>>

-----------------------------------------------------------------------------
(* SpecWrite: a caller holds a declaration; a source test is expanded, the *)
(* derived tests are written as a flat file and the file is loaded back.   *)

WriteSlots == {1, 9}

\* Validation values: a legacy error string, a structured object with
\* args, and a structured object that only expects an error.
WriteValues ==
    { StringValue("Parse Error"),
      MapValue(("expect" :> BoolValue(TRUE))
               @@ ("args" :> ListValue(<<StringValue("flag")>>))),
      MapValue("error" :> BoolValue(TRUE)) }

WriteSources ==
    { SourceTest("plain"),
      [SourceTest("opposed") EXCEPT
          !.variants = <<VariantProposed>>,
          !.conflicts = Some([EmptyConflictSet EXCEPT
                                 !.behaviors = <<BehaviorCRLFNormalize>>,
                                 !.variants = <<VariantReference>>]),
          !.nils = {"args", "functions", "features", "behaviors"}] }

WriteDeclarations ==
    {[EmptyConfig EXCEPT !.supportedFunctions = {"parse", "get_bool"},
                         !.behaviorChoices = bc,
                         !.variantChoice = VariantProposed] :
        bc \in {{BehaviorCRLFNormalize}, {BehaviorCRLFPreserve}}}

InitWrite ==
    /\ cfg \in WriteDeclarations
    /\ test \in WriteSources
    /\ tests = <<>>
    /\ op = "init"
    /\ ret = Nil

\* The derived tests are converted, written and loaded back with the flat
\* hint; tests keeps them.
WriteAndLoadCall ==
    /\ op = "TransformSourceToFlat"
    /\ op' = "WriteAndLoad"
    /\ tests' = ret
    /\ ret' = LoadTestFile(
                  NewTestLoader("", cfg),
                  WriteFlatRecords(ret, [i \in DOMAIN ret |-> convertToFlatFormat(ret[i])]),
                  [Format |-> FormatFlat, FilterMode |-> FilterAll,
                   CustomFilter |-> Nil])
    /\ UNCHANGED <<cfg, test>>

NextWrite ==
    \/ \E i \in WriteSlots, value \in WriteValues : SetSlot(i, value)
    \/ TransformSourceToFlatCall
    \/ WriteAndLoadCall

SpecWrite == InitWrite /\ [][NextWrite]_vars

\* The fields of the record convertToFlatFormat builds.
WrittenFields ==
    {"Name", "Inputs", "Validation", "Expected", "Functions", "Features",
     "Behaviors", "Variants", "Args", "SourceTest"}

\* C29: the record built for a derived test has the ten fields of the
\* flat record and no other; every test loaded back from the written file
\* has no conflict set and expects no error, whatever the derived test
\* carried; and a derived test that is compatible with the declaration
\* once its conflict set is removed is compatible after the round trip.
C29_ConflictsAndErrorLostOnRoundTrip ==
    /\ op = "TransformSourceToFlat" =>
          \A j \in DOMAIN ret :
              (DOMAIN convertToFlatFormat(ret[j])) \ {"ArgsNil"} = WrittenFields
    /\ (op = "WriteAndLoad" /\ tests # <<>>) =>
          /\ ret.err = Nil
          /\ Len(ret.suite[1].Tests) = Len(tests)
          /\ \A j \in DOMAIN tests :
                LET back == ret.suite[1].Tests[j]
                IN /\ back.name = tests[j].name
                   /\ back.conflicts = Nil
                   /\ back.expectError = FALSE
                   /\ IsTestCompatible(cfg, [tests[j] EXCEPT !.conflicts = Nil])
                         => IsTestCompatible(cfg, back)

\* A derived test that expects an error and conflicts with the behavior
\* the declaration chose: incompatible before it is written, without
\* conflicts, expecting no error and compatible once loaded back.
C29_Witness ==
    /\ op = "WriteAndLoad"
    /\ Len(tests) = 1
    /\ tests[1].validation = "parse"
    /\ tests[1].expectError = TRUE
    /\ tests[1].conflicts # Nil
    /\ ~IsTestCompatible(cfg, tests[1])
    /\ ret.suite[1].Tests[1].conflicts = Nil
    /\ ret.suite[1].Tests[1].expectError = FALSE
    /\ IsTestCompatible(cfg, ret.suite[1].Tests[1])

====
